---- MODULE Spec2Model ----
(***************************************************************************)
(* Polling / reconciliation engine of the Rocket.Chat channel adapter      *)
(* (src/src/monitor.js, lines 381-704, with the reaction marker of         *)
(* reactions.js).  One engine instance, the chat service it polls, and the *)
(* external agent system it dispatches to.                                 *)
(*                                                                         *)
(* Message ids are 1, 2, ... in posting order.  The three hard-coded       *)
(* sizes of the source (500 processed ids, a history window of 20, a       *)
(* thread page of 50) are scaled down together so that evictions, window   *)
(* overflow and multi-message pages occur inside the bounded universe.     *)
(***************************************************************************)
EXTENDS Integers, Sequences, FiniteSets, TLC

\* ------------------------------------------------------------- bounds
MaxMsg == 2          \* messages ever posted to the channel
MaxCapMsg == 3       \* the same, under SpecCap
MaxLiveMsg == 4      \* the same, under SpecLive
MaxThrMsg == 4       \* the same, under SpecThr and SpecTtl
MaxNow == 2          \* clock ticks, under SpecThr and SpecTtl
MaxHist == 3         \* messages of a thread history, under SpecHist
MaxBody == 2         \* characters of a message body, under SpecHist
MaxBudget == 4       \* character budget, under SpecHist
MaxAttMsg == 3       \* messages ever posted, under SpecAtt
MaxFiles == 2        \* file attachments of a message, under SpecAtt
MaxRtMsg == 3        \* messages ever posted, under SpecRt
MaxRuntime == 2      \* distinct runtime handles, under SpecRt
MaxDeliver == 2      \* deliver() invocations per dispatch
MaxReactFails == 1   \* chat.react calls that fail

\* ------------------------------------------------- program constants
\* Scaled: one channel window here holds more ids than processedIds keeps;
\* in the source the cap is passed when the replies of tracked threads (50
\* per thread and cycle) come on top of the window of 20.
MAX_PROCESSED_IDS == 2     \* monitor.js:393 (500 in the source, scaled)
HISTORY_COUNT == 3         \* monitor.js:620 (20 in the source, scaled)
THREAD_POLL_COUNT == 2     \* monitor.js:667 (50 in the source, scaled)
threadTtlMs == 1           \* monitor.js:601, in clock ticks
THREAD_CONTEXT_COUNT == 2  \* monitor.js:641, 673 (20 in the source, scaled)
threadContextBudget == 3   \* monitor.js:395, 513 (16000 characters, scaled)

NoRuntime == 0             \* runtime.js:1, null
Handles == 1..MaxRuntime   \* the runtime objects a plugin registers with

Ids == 1..(MaxMsg + MaxCapMsg + MaxLiveMsg + MaxThrMsg + MaxAttMsg)
NoId == 0
botUserId == "bot-user"

VARIABLES
    \* ---- chat service
    msgs,           \* posted messages, index = id: [sender, t, bot, tmid]
    rx,             \* index = id: the emoji currently present on the message
    \* ---- engine (monitorRocketChat)
    pc,             \* position of the engine
    aborted,        \* abortSignal.aborted
    processedIds,   \* the Set of monitor.js:614, in insertion order
    activeThreads,  \* the Map of monitor.js:616, in insertion order
    now,            \* Date.now()
    batch,          \* messages / newReplies being iterated, oldest first
    idx,            \* position in batch
    tIdx,           \* position in activeThreads during the thread loop
    cur,            \* the message inside processMessage
    delivered,      \* monitor.js:549
    deliveryError,  \* monitor.js:550
    trace,          \* calls made for the message in processMessage, in order
    reactFails,     \* chat.react calls that have failed
    \* ---- history variables, written by Observe and LogSet only
    dispatchCount,  \* id -> dispatch invocations, this run
    evicted,        \* ids evicted from processedIds, this run
    recent,         \* the latest insertions into processedIds, oldest first
    lastLen,        \* messages posted at the latest channel fetch of this run
    prevLen,        \* the same at the fetch before it (0: none, or it failed)
    failed,         \* the reaction calls that failed for the message in trace
    pending,        \* thread polls that ended at a failed context fetch and
                    \* have not been repeated: [id, offset, page]
    pruned,         \* thread states deleted as stale, this run: [id, offset]
    fetchFailed,    \* the latest channel fetch of this run failed
    setLog,         \* the setRuntime calls so far: [last, nonNull]
    \* ---- runtime.js
    _runtime,       \* runtime.js:1
    \* ---- one call of buildInboundHistory (monitor.js:401-425)
    threadHistory,  \* its first argument, oldest first: [id, msg]
    currentMsgId,   \* its second argument
    budget,         \* its third argument
    result,         \* what it returned
    returned        \* it has returned

coreVars == <<msgs, rx, pc, aborted, processedIds, activeThreads, now, batch,
              idx, tIdx, cur, delivered, deliveryError, trace, reactFails>>

obsVars == <<dispatchCount, evicted, recent, lastLen, prevLen, failed,
             pending, pruned, fetchFailed, setLog>>

callVars == <<threadHistory, currentMsgId, budget, result, returned>>

moduleVars == <<_runtime>>

vars == <<coreVars, obsVars, callVars, moduleVars>>

serverVars == <<msgs, rx>>
loopVars == <<batch, idx, tIdx>>

\* ------------------------------------------------------------ helpers
Reverse(s) == [i \in 1..Len(s) |-> s[Len(s) + 1 - i]]

Range(s) == {s[i] : i \in 1..Len(s)}

Min(a, b) == IF a < b THEN a ELSE b

Max(a, b) == IF a > b THEN a ELSE b

NoMsg == [id |-> NoId, x |-> FALSE, thread |-> NoId, threadHistory |-> <<>>,
          files |-> 0, tempDir |-> FALSE, left |-> 0, paths |-> <<>>]

ZeroCount == [m \in Ids |-> 0]

\* ------------------------------------------------------- chat service
\* The snapshot of message i a fetch returns: its fields and reactions now.
\* The text of message i: one character of its own.
MsgText(i) == <<i>>

\* What the engine holds of message i after a fetch: the fields of the
\* message it reads, and with them the threadHistory that the loop passes to
\* processMessage for it (none until a context fetch has succeeded).
Snapshot(i) ==
    [id |-> i, sender |-> msgs[i].sender, t |-> msgs[i].t, bot |-> msgs[i].bot,
     tmid |-> msgs[i].tmid, msg |-> MsgText(i), files |-> msgs[i].files,
     threadHistory |-> <<>>,
     tcount |-> Cardinality({j \in 1..Len(msgs) : msgs[j].tmid = i}),
     check |-> "white_check_mark" \in rx[i], x |-> "x" \in rx[i]]

\* channels.history: the newest `count` messages of the room, newest first.
getChannelHistory(count) ==
    [k \in 1..Min(count, Len(msgs)) |-> Snapshot(Len(msgs) + 1 - k)]

\* The ids of a thread, oldest first: the root, then its replies.
ThreadIds(threadId) ==
    SelectSeq([i \in 1..Len(msgs) |-> i],
              LAMBDA i : i = threadId \/ msgs[i].tmid = threadId)

\* chat.getThreadMessages: one page of the thread, oldest first.
getThreadMessages(threadId, count, offset) ==
    LET all == ThreadIds(threadId)
        last == Min(offset + count, Len(all))
    IN  [k \in 1..Max(0, last - offset) |-> Snapshot(all[offset + k])]

\* The messages of a fetched thread page as buildInboundHistory and
\* monitor.js:515 read them.
History(page) == [k \in 1..Len(page) |-> [id |-> page[k].id, msg |-> page[k].msg]]

\* monitor.js:672-680: the context of a polled thread: its last
\* THREAD_CONTEXT_COUNT messages (total is the length of the thread).
ThreadPollContext(threadId) ==
    LET total == Len(ThreadIds(threadId))
        contextOffset == Max(0, total - THREAD_CONTEXT_COUNT)
    IN  History(getThreadMessages(threadId, THREAD_CONTEXT_COUNT, contextOffset))

\* chat.react: shouldReact = TRUE sets the emoji; shouldReact = FALSE removes
\* it when present and adds it when absent (the toggle of monitor.js:461).
reactToMessage(present, emoji, shouldReact) ==
    IF shouldReact THEN present \cup {emoji}
    ELSE IF emoji \in present THEN present \ {emoji}
    ELSE present \cup {emoji}

\* ------------------------------------------------ filter and dedup set
\* A membership test that answers yes for every id.
hasAlways(ids, id) == TRUE

has(ids, id) == id \in Range(ids)

\* Variants of the filter, each with one exclusion changed.
SkipReasonNoSeen(msg, ids) ==
    IF msg.sender = botUserId THEN "self"
    ELSE IF msg.t THEN "system"
    ELSE IF msg.bot THEN "bot"
    ELSE IF msg.check THEN "check"
    ELSE "none"

SkipReasonNoCheck(msg, ids) ==
    IF msg.sender = botUserId THEN "self"
    ELSE IF msg.t THEN "system"
    ELSE IF msg.bot THEN "bot"
    ELSE IF msg.id \in Range(ids) THEN "seen"
    ELSE "none"

SkipReasonNoBot(msg, ids) ==
    IF msg.sender = botUserId THEN "self"
    ELSE IF msg.t THEN "system"
    ELSE IF msg.check THEN "check"
    ELSE IF msg.id \in Range(ids) THEN "seen"
    ELSE "none"

\* monitor.js:438-444: the first exclusion that matches, or "none".
SkipReason(msg, ids) ==
    IF msg.sender = botUserId THEN "self"
    ELSE IF msg.t THEN "system"
    ELSE IF msg.bot THEN "bot"
    ELSE IF msg.check THEN "check"
    ELSE IF has(ids, msg.id) THEN "seen"
    ELSE "none"

\* Variants of the insertion: without the cap, and with the newest ids
\* deleted instead of the oldest.
AddProcessedNoCap(ids, id) == Append(ids, id)

AddProcessedKeepOldest(ids, id) ==
    LET added == Append(ids, id)
    IN  IF Len(added) > MAX_PROCESSED_IDS
        THEN SubSeq(added, 1, MAX_PROCESSED_IDS)
        ELSE added

\* monitor.js:445-454: add, then delete the first `excess` ids in insertion
\* order.
AddProcessed(ids, id) ==
    LET added == Append(ids, id)
        excess == Len(added) - MAX_PROCESSED_IDS
    IN  IF Len(added) > MAX_PROCESSED_IDS
        THEN SubSeq(added, excess + 1, Len(added))
        ELSE added

\* ------------------------------------------------------ thread tracker
ThreadPos(threads, id) ==
    IF \E k \in 1..Len(threads) : threads[k].id = id
    THEN CHOOSE k \in 1..Len(threads) : threads[k].id = id
    ELSE 0

\* A variant that starts a tracked thread again from offset 0 when its root
\* is seen again.
TrackThreadReset(threads, msg, clock) ==
    IF msg.tmid = NoId /\ msg.tcount > 0
    THEN IF ThreadPos(threads, msg.id) = 0
         THEN Append(threads, [id |-> msg.id, lastSeen |-> clock, offset |-> 0])
         ELSE [threads EXCEPT ![ThreadPos(threads, msg.id)] =
                  [id |-> msg.id, lastSeen |-> clock, offset |-> 0]]
    ELSE threads

\* A variant that also tracks the parent of a reply it meets.
TrackThreadOfReply(threads, msg, clock) ==
    LET root == IF msg.tmid # NoId THEN msg.tmid ELSE msg.id
    IN  IF msg.tmid # NoId \/ msg.tcount > 0
        THEN IF ThreadPos(threads, root) = 0
             THEN Append(threads, [id |-> root, lastSeen |-> clock, offset |-> 0])
             ELSE [threads EXCEPT ![ThreadPos(threads, root)].lastSeen = clock]
        ELSE threads

\* A variant that starts a new thread state behind the replies the root
\* already counts.
TrackThreadAtEnd(threads, msg, clock) ==
    IF msg.tmid = NoId /\ msg.tcount > 0
    THEN IF ThreadPos(threads, msg.id) = 0
         THEN Append(threads, [id |-> msg.id, lastSeen |-> clock,
                               offset |-> msg.tcount])
         ELSE [threads EXCEPT ![ThreadPos(threads, msg.id)].lastSeen = clock]
    ELSE threads

\* monitor.js:628-634
TrackThread(threads, msg, clock) ==
    IF msg.tmid = NoId /\ msg.tcount > 0
    THEN IF ThreadPos(threads, msg.id) = 0
         THEN Append(threads, [id |-> msg.id, lastSeen |-> clock, offset |-> 0])
         ELSE [threads EXCEPT ![ThreadPos(threads, msg.id)].lastSeen = clock]
    ELSE threads

\* A variant of the pruning that removes a thread state at the TTL already.
PruneThreadsAtTtl(threads, clock) ==
    SelectSeq(threads, LAMBDA st : ~(clock - st.lastSeen >= threadTtlMs))

\* monitor.js:654-660
PruneThreads(threads, clock) ==
    SelectSeq(threads, LAMBDA st : ~(clock - st.lastSeen > threadTtlMs))

\* ------------------------------------------------------------- events
Ev(op, arg) == [op |-> op, arg |-> arg]

\* A snapshot that passes the four stateless exclusions of monitor.js:439-442.
Unmarked(msg) == SkipReason(msg, <<>>) = "none"

ProcPcs == {"rm_x", "mark_proc", "attach", "download", "dispatch",
            "complete1", "complete2", "fail1", "fail2"}

\* ------------------------------------------------ buildInboundHistory
Chars == {"a", "b"}
Ellipsis == "\\u2026"

\* The character sequences of at most n characters.
Texts(n) == UNION {[1..k -> Chars] : k \in 0..n}

\* The thread histories of at most n messages; the id of a message is its
\* position in the thread.
Histories(n) ==
    UNION {{[i \in 1..k |-> [id |-> i, msg |-> f[i]]] :
               f \in [1..k -> Texts(MaxBody)]} : k \in 0..n}

\* monitor.js:410-421: the loop over prior (newest first) from position k,
\* with `remaining` characters left and `entries` pushed so far.
RECURSIVE Allocate(_, _, _, _)
Allocate(prior, k, remaining, entries) ==
    IF k > Len(prior) \/ remaining <= 0 THEN entries
    ELSE LET m == prior[k]
             body == m.msg
         IN  IF Len(body) <= remaining
             THEN Allocate(prior, k + 1, remaining - Len(body),
                           Append(entries, [id |-> m.id, body |-> body]))
             ELSE Allocate(prior, k + 1, 0,
                           Append(entries,
                                  [id |-> m.id,
                                   body |-> Append(SubSeq(body, 1, remaining),
                                                   Ellipsis)]))

\* A variant that cuts the newest messages first.
buildInboundHistoryOldestFirst(history, msgId, chars) ==
    LET prior == SelectSeq(history, LAMBDA m : m.id # msgId)
    IN  Allocate(prior, 1, chars, <<>>)

\* A variant that returns every prior message whole.
buildInboundHistoryUnbounded(history, msgId, chars) ==
    LET prior == SelectSeq(history, LAMBDA m : m.id # msgId)
    IN  [i \in 1..Len(prior) |-> [id |-> prior[i].id, body |-> prior[i].msg]]

\* A variant that keeps the current message.
buildInboundHistoryAll(history, msgId, chars) ==
    Reverse(Allocate(Reverse(history), 1, chars, <<>>))

\* monitor.js:401-425.  An entry keeps the id of its message in place of the
\* sender and the timestamp, which are copied from the message.
buildInboundHistory(history, msgId, chars) ==
    LET prior == Reverse(SelectSeq(history, LAMBDA m : m.id # msgId))
    IN  Reverse(Allocate(prior, 1, chars, <<>>))

\* --------------------------------------------------------------- Init
NoCall ==
    /\ threadHistory = <<>>
    /\ currentMsgId = NoId
    /\ budget = 0
    /\ result = <<>>
    /\ returned = FALSE

InitEngine ==
    /\ msgs = <<>>
    /\ rx = <<>>
    /\ pc = "start"
    /\ aborted = FALSE
    /\ processedIds = <<>>
    /\ activeThreads = <<>>
    /\ now = 0
    /\ batch = <<>>
    /\ idx = 1
    /\ tIdx = 0
    /\ cur = NoMsg
    /\ delivered = FALSE
    /\ deliveryError = FALSE
    /\ trace = <<>>
    /\ reactFails = 0
    /\ dispatchCount = ZeroCount
    /\ evicted = {}
    /\ recent = <<>>
    /\ lastLen = 0
    /\ prevLen = 0
    /\ failed = {}
    /\ pending = {}
    /\ pruned = {}
    /\ fetchFailed = FALSE

\* runtime.js:1: the module as loaded, no setRuntime call made.
PluginNotRegistered ==
    /\ _runtime = NoRuntime
    /\ setLog = [last |-> NoRuntime, nonNull |-> FALSE]

\* The plugin was registered before the engine started: one setRuntime call.
PluginRegistered ==
    /\ _runtime = 1
    /\ setLog = [last |-> 1, nonNull |-> TRUE]

Init == InitEngine /\ NoCall /\ PluginRegistered

\* The engine is started while the plugin has not been registered.
InitRt == InitEngine /\ NoCall /\ PluginNotRegistered

\* The arguments of one call of buildInboundHistory.
InitCall ==
    /\ InitEngine
    /\ PluginRegistered
    /\ threadHistory \in Histories(MaxHist)
    /\ currentMsgId \in 0..MaxHist
    /\ budget \in 0..MaxBudget
    /\ result = <<>>
    /\ returned = FALSE

\* The call is made and returns.
Call ==
    /\ ~returned
    /\ result' = buildInboundHistory(threadHistory, currentMsgId, budget)
    /\ returned' = TRUE
    /\ UNCHANGED <<coreVars, obsVars, moduleVars, threadHistory, currentMsgId,
                   budget>>

\* -------------------------------------------------------- environment
\* Someone posts a message: top level, or a reply in the thread of a
\* top-level message.  The engine reads the message list only in its
\* fetches, so a post is taken at the points where a fetch comes next.
PostMessage(sender, t, bot, tmid, files) ==
    /\ pc \in {"start", "loop", "thr"}
    /\ tmid \in {NoId} \cup {i \in 1..Len(msgs) : msgs[i].tmid = NoId}
    /\ msgs' = Append(msgs, [sender |-> sender, t |-> t, bot |-> bot,
                             tmid |-> tmid, files |-> files])
    /\ rx' = Append(rx, {})
    /\ UNCHANGED <<pc, aborted, processedIds, activeThreads, now, loopVars,
                   cur, delivered, deliveryError, trace, reactFails>>

\* A message without file attachments.
Post(sender, t, bot, tmid) == PostMessage(sender, t, bot, tmid, 0)

\* Date.now() advances (monitor.js:630, 632, 655, 690); the clock is read by
\* the engine during a cycle, so a tick is taken between two cycles.
Tick ==
    /\ pc = "sleep"
    /\ now < MaxNow
    /\ now' = now + 1
    /\ UNCHANGED <<serverVars, pc, aborted, processedIds, activeThreads,
                   loopVars, cur, delivered, deliveryError, trace, reactFails>>

\* Date.now() advances while the engine awaits the agent (monitor.js:549):
\* time passes between the refresh of a thread state (monitor.js:630, 632)
\* and the pruning of the same cycle (monitor.js:655).
Elapse ==
    /\ pc = "dispatch"
    /\ now < MaxNow
    /\ now' = now + 1
    /\ UNCHANGED <<serverVars, pc, aborted, processedIds, activeThreads,
                   loopVars, cur, delivered, deliveryError, trace, reactFails>>

\* The host sets the cancellation signal.
Abort ==
    /\ ~aborted
    /\ pc \notin {"stopped", "fatal"}
    /\ aborted' = TRUE
    /\ UNCHANGED <<serverVars, pc, processedIds, activeThreads, now, loopVars,
                   cur, delivered, deliveryError, trace, reactFails>>

\* The process is started again: all in-memory state is new, the chat
\* service keeps its messages and reactions.
Restart ==
    /\ pc \in {"stopped", "fatal"}
    /\ pc' = "start"
    /\ aborted' = FALSE
    /\ processedIds' = <<>>
    /\ activeThreads' = <<>>
    /\ batch' = <<>>
    /\ idx' = 1
    /\ tIdx' = 0
    /\ cur' = NoMsg
    /\ delivered' = FALSE
    /\ deliveryError' = FALSE
    /\ trace' = <<>>
    /\ UNCHANGED <<serverVars, now, reactFails>>

\* ------------------------------------------------ monitorRocketChat
\* A variant that enters the loop whatever the resolution gave.
ResolveChannelIgnore(ok) ==
    /\ pc = "start"
    /\ pc' = "loop"
    /\ UNCHANGED <<serverVars, aborted, processedIds, activeThreads, now,
                   loopVars, cur, delivered, deliveryError, trace, reactFails>>

\* monitor.js:603-612: resolve the channel once; a failure is thrown.
ResolveChannel(ok) ==
    /\ pc = "start"
    /\ pc' = IF ok THEN "loop" ELSE "fatal"
    /\ UNCHANGED <<serverVars, aborted, processedIds, activeThreads, now,
                   loopVars, cur, delivered, deliveryError, trace, reactFails>>

\* A variant of the loop exit that sleeps again instead of returning.
LoopExitSleep ==
    /\ pc = "loop"
    /\ aborted
    /\ pc' = "sleep"
    /\ trace' = <<>>
    /\ UNCHANGED <<serverVars, aborted, processedIds, activeThreads, now,
                   loopVars, cur, delivered, deliveryError, reactFails>>

\* monitor.js:618 and 703: the loop condition fails, the stop marker is logged.
LoopExit ==
    /\ pc = "loop"
    /\ aborted
    /\ pc' = "stopped"
    /\ trace' = <<>>
    /\ UNCHANGED <<serverVars, aborted, processedIds, activeThreads, now,
                   loopVars, cur, delivered, deliveryError, reactFails>>

\* A variant of the channel fetch that keeps the order of the response,
\* newest first.
PollFetchNewestFirst(ok) ==
    /\ pc = "loop"
    /\ ~aborted
    /\ trace' = <<>>
    /\ IF ok
       THEN /\ batch' = getChannelHistory(HISTORY_COUNT)
            /\ idx' = 1
            /\ pc' = "chan"
       ELSE /\ pc' = "sleep"
            /\ UNCHANGED <<batch, idx>>
    /\ UNCHANGED <<serverVars, aborted, processedIds, activeThreads, now, tIdx,
                   cur, delivered, deliveryError, reactFails>>

\* Variants of the channel fetch: one that does not look at the signal, one
\* whose failure ends the engine.
PollFetchAnyway(ok) ==
    /\ pc = "loop"
    /\ trace' = <<>>
    /\ IF ok
       THEN /\ batch' = Reverse(getChannelHistory(HISTORY_COUNT))
            /\ idx' = 1
            /\ pc' = "chan"
       ELSE /\ pc' = "sleep"
            /\ UNCHANGED <<batch, idx>>
    /\ UNCHANGED <<serverVars, aborted, processedIds, activeThreads, now, tIdx,
                   cur, delivered, deliveryError, reactFails>>

PollFetchFatal(ok) ==
    /\ pc = "loop"
    /\ ~aborted
    /\ trace' = <<>>
    /\ IF ok
       THEN /\ batch' = Reverse(getChannelHistory(HISTORY_COUNT))
            /\ idx' = 1
            /\ pc' = "chan"
       ELSE /\ pc' = "fatal"
            /\ UNCHANGED <<batch, idx>>
    /\ UNCHANGED <<serverVars, aborted, processedIds, activeThreads, now, tIdx,
                   cur, delivered, deliveryError, reactFails>>

\* A variant of the channel fetch whose failure skips the channel loop only:
\* the cycle goes on to prune and poll the threads.
PollFetchThenThreads(ok) ==
    /\ pc = "loop"
    /\ ~aborted
    /\ trace' = <<>>
    /\ IF ok
       THEN /\ batch' = Reverse(getChannelHistory(HISTORY_COUNT))
            /\ idx' = 1
            /\ pc' = "chan"
            /\ UNCHANGED <<activeThreads, tIdx>>
       ELSE /\ pc' = "thr"
            /\ activeThreads' = PruneThreads(activeThreads, now)
            /\ tIdx' = 1
            /\ batch' = <<>>
            /\ idx' = 1
    /\ UNCHANGED <<serverVars, aborted, processedIds, now, cur, delivered,
                   deliveryError, reactFails>>

\* monitor.js:618-621 and 696-698: fetch the channel window and put it oldest
\* first; a failed fetch is logged and the cycle goes to the sleep.
PollFetch(ok) ==
    /\ pc = "loop"
    /\ ~aborted
    /\ trace' = <<>>
    /\ IF ok
       THEN /\ batch' = Reverse(getChannelHistory(HISTORY_COUNT))
            /\ idx' = 1
            /\ pc' = "chan"
       ELSE /\ pc' = "sleep"
            /\ UNCHANGED <<batch, idx>>
    /\ UNCHANGED <<serverVars, aborted, processedIds, activeThreads, now, tIdx,
                   cur, delivered, deliveryError, reactFails>>

\* A variant of processMessage that goes to markProcessing without looking
\* at the x of the snapshot.
processMessageKeepX(msg, replyThreadId) ==
    /\ trace' = <<>>
    /\ IF SkipReason(msg, processedIds) # "none"
       THEN /\ idx' = idx + 1
            /\ pc' = IF tIdx = 0 THEN "chan" ELSE "reply"
            /\ UNCHANGED <<processedIds, cur>>
       ELSE /\ processedIds' = AddProcessed(processedIds, msg.id)
            /\ cur' = [id |-> msg.id, x |-> msg.x, thread |-> replyThreadId,
                         threadHistory |-> msg.threadHistory,
                         files |-> msg.files, tempDir |-> FALSE,
                         left |-> msg.files, paths |-> <<>>]
            /\ pc' = "mark_proc"
            /\ UNCHANGED idx

\* A variant of processMessage that records the id of every message it is
\* called with, eligible or not.
processMessageAddFirst(msg, replyThreadId) ==
    /\ trace' = <<>>
    /\ processedIds' = IF has(processedIds, msg.id) THEN processedIds
                       ELSE AddProcessed(processedIds, msg.id)
    /\ IF SkipReason(msg, processedIds) # "none"
       THEN /\ idx' = idx + 1
            /\ pc' = IF tIdx = 0 THEN "chan" ELSE "reply"
            /\ UNCHANGED cur
       ELSE /\ cur' = [id |-> msg.id, x |-> msg.x, thread |-> replyThreadId,
                         threadHistory |-> msg.threadHistory,
                         files |-> msg.files, tempDir |-> FALSE,
                         left |-> msg.files, paths |-> <<>>]
            /\ pc' = IF msg.x THEN "rm_x" ELSE "mark_proc"
            /\ UNCHANGED idx

\* monitor.js:438-458: the filter; an eligible id enters processedIds (with
\* the cap applied) before the first await of processMessage.
processMessage(msg, replyThreadId) ==
    /\ trace' = <<>>
    /\ IF SkipReason(msg, processedIds) # "none"
       THEN /\ idx' = idx + 1
            /\ pc' = IF tIdx = 0 THEN "chan" ELSE "reply"
            /\ UNCHANGED <<processedIds, cur>>
       ELSE /\ processedIds' = AddProcessed(processedIds, msg.id)
            /\ cur' = [id |-> msg.id, x |-> msg.x, thread |-> replyThreadId,
                         threadHistory |-> msg.threadHistory,
                         files |-> msg.files, tempDir |-> FALSE,
                         left |-> msg.files, paths |-> <<>>]
            /\ pc' = IF msg.x THEN "rm_x" ELSE "mark_proc"
            /\ UNCHANGED idx

\* A variant that targets no thread.
replyThreadIdNone(msg) == NoId

\* monitor.js:636: the thread a reply to msg is posted in.
replyThreadId(msg) == IF msg.tmid # NoId THEN msg.tmid ELSE msg.id

\* A variant of the iteration that does not look at the signal.
ChanStepUnchecked ==
    /\ pc = "chan"
    /\ idx <= Len(batch)
    /\ activeThreads' = TrackThread(activeThreads, batch[idx], now)
    /\ IF batch[idx].tmid # NoId
       THEN /\ pc' = "ctx"
            /\ trace' = <<>>
            /\ UNCHANGED <<idx, processedIds, cur>>
       ELSE processMessage(batch[idx], replyThreadId(batch[idx]))
    /\ UNCHANGED <<serverVars, aborted, now, batch, tIdx, delivered,
                   deliveryError, reactFails>>

\* monitor.js:623-651: one iteration of the channel loop: check the signal,
\* track a thread root, then for a reply start the fetch of its thread
\* context (monitor.js:641), for any other message call processMessage.
ChanStep ==
    /\ pc = "chan"
    /\ idx <= Len(batch)
    /\ ~aborted
    /\ activeThreads' = TrackThread(activeThreads, batch[idx], now)
    /\ IF batch[idx].tmid # NoId
       THEN /\ pc' = "ctx"
            /\ trace' = <<>>
            /\ UNCHANGED <<idx, processedIds, cur>>
       ELSE processMessage(batch[idx], replyThreadId(batch[idx]))
    /\ UNCHANGED <<serverVars, aborted, now, batch, tIdx, delivered,
                   deliveryError, reactFails>>

\* monitor.js:640-651: the context fetch of a reply settles (a failure is
\* logged and leaves threadHistory unset); processMessage is called.
ChanContext(ok) ==
    /\ pc = "ctx"
    /\ LET threadData == getThreadMessages(batch[idx].tmid,
                                           THREAD_CONTEXT_COUNT, 0)
       IN  processMessage(
               [batch[idx] EXCEPT
                   !.threadHistory = IF ok THEN History(threadData) ELSE <<>>],
               replyThreadId(batch[idx]))
    /\ UNCHANGED <<serverVars, aborted, activeThreads, now, batch, tIdx,
                   delivered, deliveryError, reactFails>>

\* monitor.js:623-624 and 654-660: the channel loop ends (exhausted, or the
\* signal is set); stale threads are pruned.
ChanDone ==
    /\ pc = "chan"
    /\ idx > Len(batch) \/ aborted
    /\ activeThreads' = PruneThreads(activeThreads, now)
    /\ pc' = "thr"
    /\ tIdx' = 1
    /\ batch' = <<>>
    /\ idx' = 1
    /\ trace' = <<>>
    /\ UNCHANGED <<serverVars, aborted, processedIds, now, cur, delivered,
                   deliveryError, reactFails>>

\* A variant of the thread poll that moves the offset past the page when
\* the fetch fails.
ThreadFetchLose(ok) ==
    /\ pc = "thr"
    /\ tIdx >= 1
    /\ tIdx <= Len(activeThreads)
    /\ ~aborted
    /\ trace' = <<>>
    /\ LET state == activeThreads[tIdx]
           newReplies == getThreadMessages(state.id, THREAD_POLL_COUNT,
                                           state.offset)
       IN  IF ok /\ Len(newReplies) > 0
           THEN /\ batch' = newReplies
                /\ idx' = 1
                /\ pc' = "tctx"
                /\ UNCHANGED <<tIdx, activeThreads>>
           ELSE /\ tIdx' = tIdx + 1
                /\ activeThreads' = [activeThreads EXCEPT
                       ![tIdx].offset = @ + Len(newReplies)]
                /\ UNCHANGED <<batch, idx, pc>>
    /\ UNCHANGED <<serverVars, aborted, processedIds, now, cur,
                   delivered, deliveryError, reactFails>>

\* monitor.js:663-670 and 692-694: check the signal and poll one tracked
\* thread at its offset; with new replies the fetch of the thread context
\* comes next; a failure is logged and the thread is left as it was.
ThreadFetch(ok) ==
    /\ pc = "thr"
    /\ tIdx >= 1
    /\ tIdx <= Len(activeThreads)
    /\ ~aborted
    /\ trace' = <<>>
    /\ LET state == activeThreads[tIdx]
           newReplies == getThreadMessages(state.id, THREAD_POLL_COUNT,
                                           state.offset)
       IN  IF ok /\ Len(newReplies) > 0
           THEN /\ batch' = newReplies
                /\ idx' = 1
                /\ pc' = "tctx"
                /\ UNCHANGED tIdx
           ELSE /\ tIdx' = tIdx + 1
                /\ UNCHANGED <<batch, idx, pc>>
    /\ UNCHANGED <<serverVars, aborted, processedIds, activeThreads, now, cur,
                   delivered, deliveryError, reactFails>>

\* A variant of the context fetch whose failure still moves the cursor of
\* the thread past the replies it had read.
ThreadContextAdvance(ok) ==
    /\ pc = "tctx"
    /\ IF ok
       THEN /\ pc' = "reply"
            /\ batch' = [k \in 1..Len(batch) |->
                            [batch[k] EXCEPT !.threadHistory =
                                ThreadPollContext(activeThreads[tIdx].id)]]
            /\ UNCHANGED <<idx, tIdx, activeThreads>>
       ELSE /\ pc' = "thr"
            /\ tIdx' = tIdx + 1
            /\ batch' = <<>>
            /\ idx' = 1
            /\ activeThreads' =
                  [activeThreads EXCEPT ![tIdx].offset = @ + Len(batch)]
    /\ UNCHANGED <<serverVars, aborted, processedIds, now, cur,
                   delivered, deliveryError, trace, reactFails>>

\* monitor.js:672-680 and 692-694: the fetch of the thread context settles;
\* a failure is logged and the thread is left as it was.
ThreadContext(ok) ==
    /\ pc = "tctx"
    /\ IF ok
       THEN /\ pc' = "reply"
            /\ batch' = [k \in 1..Len(batch) |->
                            [batch[k] EXCEPT !.threadHistory =
                                ThreadPollContext(activeThreads[tIdx].id)]]
            /\ UNCHANGED <<idx, tIdx>>
       ELSE /\ pc' = "thr"
            /\ tIdx' = tIdx + 1
            /\ batch' = <<>>
            /\ idx' = 1
    /\ UNCHANGED <<serverVars, aborted, processedIds, activeThreads, now, cur,
                   delivered, deliveryError, trace, reactFails>>

\* A variant of the reply iteration that targets the reply itself.
ReplyStepOwn ==
    /\ pc = "reply"
    /\ idx <= Len(batch)
    /\ ~aborted
    /\ processMessage(batch[idx], batch[idx].id)
    /\ UNCHANGED <<serverVars, aborted, activeThreads, now, batch, tIdx,
                   delivered, deliveryError, reactFails>>

\* monitor.js:682-687: one iteration of the reply loop.
ReplyStep ==
    /\ pc = "reply"
    /\ idx <= Len(batch)
    /\ ~aborted
    /\ processMessage(batch[idx], activeThreads[tIdx].id)
    /\ UNCHANGED <<serverVars, aborted, activeThreads, now, batch, tIdx,
                   delivered, deliveryError, reactFails>>

\* A variant of the end of the reply loop that moves the offset by one.
ReplyDoneByOne ==
    /\ pc = "reply"
    /\ idx > Len(batch) \/ aborted
    /\ activeThreads' = [activeThreads EXCEPT
                           ![tIdx].offset = @ + 1,
                           ![tIdx].lastSeen = now]
    /\ tIdx' = tIdx + 1
    /\ pc' = "thr"
    /\ batch' = <<>>
    /\ idx' = 1
    /\ trace' = <<>>
    /\ UNCHANGED <<serverVars, aborted, processedIds, now, cur, delivered,
                   deliveryError, reactFails>>

\* monitor.js:683 and 689-690: the reply loop ends; the offset advances by
\* the page length.
ReplyDone ==
    /\ pc = "reply"
    /\ idx > Len(batch) \/ aborted
    /\ activeThreads' = [activeThreads EXCEPT
                           ![tIdx].offset = @ + Len(batch),
                           ![tIdx].lastSeen = now]
    /\ tIdx' = tIdx + 1
    /\ pc' = "thr"
    /\ batch' = <<>>
    /\ idx' = 1
    /\ trace' = <<>>
    /\ UNCHANGED <<serverVars, aborted, processedIds, now, cur, delivered,
                   deliveryError, reactFails>>

\* monitor.js:663-664: the thread loop ends.
ThreadsDone ==
    /\ pc = "thr"
    /\ tIdx > Len(activeThreads) \/ aborted
    /\ pc' = "sleep"
    /\ tIdx' = 0
    /\ trace' = <<>>
    /\ UNCHANGED <<serverVars, aborted, processedIds, activeThreads, now,
                   batch, idx, cur, delivered, deliveryError, reactFails>>

\* monitor.js:700: the sleep ends (interval elapsed, or the signal was set).
Sleep ==
    /\ pc = "sleep"
    /\ pc' = "loop"
    /\ UNCHANGED <<serverVars, aborted, processedIds, activeThreads, now,
                   loopVars, cur, delivered, deliveryError, trace, reactFails>>

\* ----------------------------------------------------- processMessage
\* One chat.react call for the message in processMessage: applied when it
\* succeeds, logged and swallowed when it fails.
React(emoji, shouldReact, ok) ==
    /\ ok \/ reactFails < MaxReactFails
    /\ reactFails' = IF ok THEN reactFails ELSE reactFails + 1
    /\ rx' = IF ok
             THEN [rx EXCEPT ![cur.id] = reactToMessage(@, emoji, shouldReact)]
             ELSE rx
    /\ UNCHANGED msgs

Called(emoji, shouldReact) ==
    Ev(emoji \o (IF shouldReact THEN ":add" ELSE ":remove"), cur.id)

\* A variant of the finally block that leaves the directory.
FinallyNothing == <<>>

\* monitor.js:583-587: the finally block of processMessage: the removal of
\* the temporary directory is started when one was created, and not awaited.
Finally == IF cur.tempDir THEN <<Ev("rm", cur.id)>> ELSE <<>>

\* processMessage returns to the loop that called it.
Return ==
    /\ pc' = IF tIdx = 0 THEN "chan" ELSE "reply"
    /\ idx' = idx + 1
    /\ cur' = NoMsg
    /\ delivered' = FALSE
    /\ deliveryError' = FALSE

\* A variant that sets x instead of removing it.
RemoveStaleXAdd(ok) ==
    /\ pc = "rm_x"
    /\ React("x", TRUE, ok)
    /\ trace' = Append(trace, Called("x", TRUE))
    /\ pc' = "mark_proc"
    /\ UNCHANGED <<aborted, processedIds, activeThreads, now, loopVars, cur,
                   delivered, deliveryError>>

\* monitor.js:462-468: the snapshot carries x: remove it; a failure is logged.
RemoveStaleX(ok) ==
    /\ pc = "rm_x"
    /\ React("x", FALSE, ok)
    /\ trace' = Append(trace, Called("x", FALSE))
    /\ pc' = "mark_proc"
    /\ UNCHANGED <<aborted, processedIds, activeThreads, now, loopVars, cur,
                   delivered, deliveryError>>

\* monitor.js:470-473 and reactions.js:9-15: mark processing, then enter the
\* dispatch of the message (the try block of monitor.js:473-570: runtime and
\* route resolution, inbound context, the dispatch call). A message with
\* file attachments passes through their download first (monitor.js:520).
markProcessing(ok) ==
    /\ pc = "mark_proc"
    /\ React("hourglass", TRUE, ok)
    /\ pc' = IF cur.files > 0 THEN "attach" ELSE "dispatch"
    /\ trace' = trace \o <<Called("hourglass", TRUE), Ev("dispatch", cur.id)>>
    /\ UNCHANGED <<aborted, processedIds, activeThreads, now, loopVars, cur,
                   delivered, deliveryError>>

\* monitor.js:474-480: the runtime or the route of a message cannot be
\* resolved: the throw is caught at monitor.js:580, before any attachment.
RouteThrow ==
    /\ pc = "attach"
    /\ pc' = "fail1"
    /\ trace' = Append(trace, Ev("throw", cur.id))
    /\ UNCHANGED <<serverVars, aborted, processedIds, activeThreads, now,
                   loopVars, cur, delivered, deliveryError, reactFails>>

\* monitor.js:521-522 and 544-546: the temporary directory is made; when
\* mkdtemp fails the catch logs a warning and the dispatch goes on.
MakeTempDir(ok) ==
    /\ pc = "attach"
    /\ pc' = IF ok THEN "download" ELSE "dispatch"
    /\ cur' = [cur EXCEPT !.tempDir = ok]
    /\ trace' = Append(trace, Ev(IF ok THEN "mkdtemp" ELSE "mkdtemp_failed",
                                 cur.id))
    /\ UNCHANGED <<serverVars, aborted, processedIds, activeThreads, now,
                   loopVars, delivered, deliveryError, reactFails>>

\* The attachment the download loop is at.
Attachment == cur.files - cur.left + 1

\* A variant of the download whose failure is thrown out of the try block.
DownloadRaise(ok) ==
    /\ pc = "download"
    /\ cur.left > 0
    /\ pc' = IF ~ok THEN "fail1" ELSE IF cur.left = 1 THEN "dispatch"
             ELSE "download"
    /\ cur' = [cur EXCEPT !.left = @ - 1,
                          !.paths = IF ok THEN Append(@, Attachment) ELSE @]
    /\ trace' = Append(trace, IF ok THEN Ev("download", Attachment)
                              ELSE Ev("throw", cur.id))
    /\ UNCHANGED <<serverVars, aborted, processedIds, activeThreads, now,
                   loopVars, delivered, deliveryError, reactFails>>

\* monitor.js:525-536: one attachment is downloaded into the directory; a
\* failure is logged as a warning and the loop goes on. After the last one
\* the media fields are set (monitor.js:537-543) and the dispatch goes on.
Download(ok) ==
    /\ pc = "download"
    /\ cur.left > 0
    /\ pc' = IF cur.left = 1 THEN "dispatch" ELSE "download"
    /\ cur' = [cur EXCEPT !.left = @ - 1,
                          !.paths = IF ok THEN Append(@, Attachment) ELSE @]
    /\ trace' = Append(trace, Ev(IF ok THEN "download" ELSE "download_failed",
                                 Attachment))
    /\ UNCHANGED <<serverVars, aborted, processedIds, activeThreads, now,
                   loopVars, delivered, deliveryError, reactFails>>

\* monitor.js:532: the type recorded for a downloaded file is that of the
\* message's file.
FileType == "msg.file.type"

\* monitor.js:488-547: the inbound context of the message in processMessage:
\* the body, for a message with thread history the three thread fields, and
\* the media fields by the number of downloaded files.
ctx ==
    [Body |-> MsgText(cur.id)]
    @@ (IF Len(cur.threadHistory) > 0
        THEN [InboundHistory |-> buildInboundHistory(cur.threadHistory, cur.id,
                                                     threadContextBudget),
              ThreadStarterBody |-> cur.threadHistory[1].msg,
              MessageThreadId |-> cur.thread]
        ELSE <<>>)
    @@ (IF Len(cur.paths) = 1
        THEN [MediaPath |-> cur.paths[1], MediaType |-> FileType]
        ELSE IF Len(cur.paths) > 1
        THEN [MediaPaths |-> cur.paths,
              MediaTypes |-> [k \in 1..Len(cur.paths) |-> FileType]]
        ELSE <<>>)

\* The deliver invocations of the dispatch in progress.
Delivers == Cardinality({k \in 1..Len(trace) :
                            trace[k].op \in {"post", "post_failed"}})

\* monitor.js:557-564: the agent invokes deliver; the post goes to the reply
\* thread, and delivered is set when sendMessage returns.
AgentDeliver(ok) ==
    /\ pc = "dispatch"
    /\ Delivers < MaxDeliver
    /\ trace' = Append(trace, Ev(IF ok THEN "post" ELSE "post_failed",
                                 cur.thread))
    /\ delivered' = (delivered \/ ok)
    /\ UNCHANGED <<serverVars, pc, aborted, processedIds, activeThreads, now,
                   loopVars, cur, deliveryError, reactFails>>

\* monitor.js:565-568: the agent invokes onError.
AgentOnError ==
    /\ pc = "dispatch"
    /\ ~deliveryError
    /\ deliveryError' = TRUE
    /\ trace' = Append(trace, Ev("onError", cur.id))
    /\ UNCHANGED <<serverVars, pc, aborted, processedIds, activeThreads, now,
                   loopVars, cur, delivered, reactFails>>

\* A variant of the throw that is taken for a normal return.
AgentThrowComplete ==
    /\ pc = "dispatch"
    /\ pc' = "complete1"
    /\ trace' = Append(trace, Ev("throw", cur.id))
    /\ UNCHANGED <<serverVars, aborted, processedIds, activeThreads, now,
                   loopVars, cur, delivered, deliveryError, reactFails>>

\* monitor.js:580-581: the dispatch throws (route resolution, or the dispatch
\* call itself, before or after deliveries).
AgentThrow ==
    /\ pc = "dispatch"
    /\ pc' = "fail1"
    /\ trace' = Append(trace, Ev("throw", cur.id))
    /\ UNCHANGED <<serverVars, aborted, processedIds, activeThreads, now,
                   loopVars, cur, delivered, deliveryError, reactFails>>

\* A variant of the outcome that reads delivered only.
AgentReturnDelivered ==
    /\ pc = "dispatch"
    /\ pc' = IF delivered THEN "complete1" ELSE "fail1"
    /\ UNCHANGED <<serverVars, aborted, processedIds, activeThreads, now,
                   loopVars, cur, delivered, deliveryError, trace, reactFails>>

\* A variant of the return in which a message cancelled in flight is left
\* as it is.
AgentReturnAborted ==
    /\ pc = "dispatch"
    /\ IF aborted
       THEN /\ Return
            /\ UNCHANGED trace
       ELSE /\ pc' = IF delivered /\ ~deliveryError THEN "complete1" ELSE "fail1"
            /\ UNCHANGED <<idx, cur, delivered, deliveryError, trace>>
    /\ UNCHANGED <<serverVars, aborted, processedIds, activeThreads, now,
                   batch, tIdx, reactFails>>

\* monitor.js:572-579: the dispatch call returns; the outcome is read.
AgentReturn ==
    /\ pc = "dispatch"
    /\ pc' = IF delivered /\ ~deliveryError THEN "complete1" ELSE "fail1"
    /\ UNCHANGED <<serverVars, aborted, processedIds, activeThreads, now,
                   loopVars, cur, delivered, deliveryError, trace, reactFails>>

\* A variant of the first half of markComplete whose failure leaves
\* markComplete at once.
markCompleteRemoveRaise(ok) ==
    /\ pc = "complete1"
    /\ React("hourglass", FALSE, ok)
    /\ IF ok
       THEN /\ pc' = "complete2"
            /\ trace' = Append(trace, Called("hourglass", FALSE))
            /\ UNCHANGED <<idx, cur, delivered, deliveryError>>
       ELSE /\ trace' = Append(trace, Called("hourglass", FALSE)) \o Finally
            /\ Return
    /\ UNCHANGED <<aborted, processedIds, activeThreads, now, batch, tIdx>>

\* reactions.js:18-22: markComplete removes the hourglass.
markCompleteRemove(ok) ==
    /\ pc = "complete1"
    /\ React("hourglass", FALSE, ok)
    /\ trace' = Append(trace, Called("hourglass", FALSE))
    /\ pc' = "complete2"
    /\ UNCHANGED <<aborted, processedIds, activeThreads, now, loopVars, cur,
                   delivered, deliveryError>>

\* A variant of the second half of markComplete that makes no call.
markCompleteAddNothing(ok) ==
    /\ pc = "complete2"
    /\ ok
    /\ trace' = Append(trace, Called("white_check_mark", TRUE)) \o Finally
    /\ Return
    /\ UNCHANGED <<serverVars, reactFails, aborted, processedIds,
                   activeThreads, now, batch, tIdx>>

\* reactions.js:23-27: markComplete adds the checkmark; processMessage returns.
markCompleteAdd(ok) ==
    /\ pc = "complete2"
    /\ React("white_check_mark", TRUE, ok)
    /\ trace' = Append(trace, Called("white_check_mark", TRUE)) \o Finally
    /\ Return
    /\ UNCHANGED <<aborted, processedIds, activeThreads, now, batch, tIdx>>

\* A variant of the first half of markFailed that leaves the hourglass.
markFailedRemoveSkip(ok) ==
    /\ pc = "fail1"
    /\ ok
    /\ trace' = Append(trace, Called("hourglass", FALSE))
    /\ pc' = "fail2"
    /\ UNCHANGED <<serverVars, reactFails, aborted, processedIds,
                   activeThreads, now, loopVars, cur, delivered, deliveryError>>

\* reactions.js:31-35: markFailed removes the hourglass.
markFailedRemove(ok) ==
    /\ pc = "fail1"
    /\ React("hourglass", FALSE, ok)
    /\ trace' = Append(trace, Called("hourglass", FALSE))
    /\ pc' = "fail2"
    /\ UNCHANGED <<aborted, processedIds, activeThreads, now, loopVars, cur,
                   delivered, deliveryError>>

\* A variant of the end of markFailed after which the rest of the batch is
\* given up.
markFailedAddBreak(ok) ==
    /\ pc = "fail2"
    /\ React("x", TRUE, ok)
    /\ trace' = Append(trace, Called("x", TRUE)) \o Finally
    /\ pc' = IF tIdx = 0 THEN "chan" ELSE "reply"
    /\ idx' = Len(batch) + 1
    /\ cur' = NoMsg
    /\ delivered' = FALSE
    /\ deliveryError' = FALSE
    /\ UNCHANGED <<aborted, processedIds, activeThreads, now, batch, tIdx>>

\* reactions.js:36-40: markFailed adds x; processMessage returns.
markFailedAdd(ok) ==
    /\ pc = "fail2"
    /\ React("x", TRUE, ok)
    /\ trace' = Append(trace, Called("x", TRUE)) \o Finally
    /\ Return
    /\ UNCHANGED <<aborted, processedIds, activeThreads, now, batch, tIdx>>

\* ----------------------------------------------------------- runtime.js
\* runtime.js:4-6
setRuntime(runtime) ==
    /\ _runtime' = runtime
    /\ UNCHANGED coreVars

\* The outcomes of getRuntime: the error of runtime.js:10 is raised, or the
\* handle h is returned.
RuntimeError == [raised |-> TRUE, value |-> NoRuntime]

Returns(h) == [raised |-> FALSE, value |-> h]

\* A variant of getRuntime that returns whatever is stored.
getRuntimeAny == Returns(_runtime)

\* runtime.js:8-13
getRuntime == IF _runtime = NoRuntime THEN RuntimeError ELSE Returns(_runtime)

\* The dispatch of the message in processMessage holds a runtime handle.
HasRuntime == \E k \in 1..Len(trace) : trace[k].op = "runtime"

\* monitor.js:474 and 580-581: the first statement of the try block asks for
\* the runtime handle; when getRuntime raises, the catch is entered.
ResolveRuntime ==
    /\ pc = "dispatch"
    /\ ~HasRuntime
    /\ IF getRuntime = RuntimeError
       THEN /\ pc' = "fail1"
            /\ trace' = Append(trace, Ev("throw", cur.id))
       ELSE /\ pc' = pc
            /\ trace' = Append(trace, Ev("runtime", getRuntime.value))
    /\ UNCHANGED <<serverVars, aborted, processedIds, activeThreads, now,
                   loopVars, cur, delivered, deliveryError, reactFails>>

\* -------------------------------------------------- history variables
\* Counters stop at 2, which stands for "more than once".
Bump(f, m) == [f EXCEPT ![m] = IF @ < 2 THEN @ + 1 ELSE @]

LastN(s, n) == SubSeq(s, Len(s) - Min(n, Len(s)) + 1, Len(s))

Restarted == pc \in {"stopped", "fatal"} /\ pc' = "start"

\* The filter let a message through in this step.
Entered == pc \in {"chan", "ctx", "reply"} /\ pc' \in {"rm_x", "mark_proc"}

\* What a step of the engine did, read off the engine's variables.
\* The reaction call that settles in the step from position p.
CallAt(p) ==
    CASE p = "rm_x"      -> "x:remove"
      [] p = "mark_proc" -> "hourglass:add"
      [] p = "complete2" -> "white_check_mark:add"
      [] p = "fail2"     -> "x:add"
      [] OTHER           -> "hourglass:remove"

\* monitor.js:663-695: a poll of a thread that got replies and then failed
\* at the context fetch is remembered with the offset it read from and the
\* ids it read, until a later poll of that thread gets its context or the
\* thread is dropped from the map.
PendingNext ==
    IF Restarted THEN {}
    ELSE IF pc = "tctx" /\ pc' = "thr"
    THEN pending \cup {[id |-> activeThreads[tIdx].id,
                        offset |-> activeThreads[tIdx].offset,
                        page |-> [k \in 1..Len(batch) |-> batch[k].id]]}
    ELSE IF pc = "tctx" /\ pc' = "reply"
    THEN {p \in pending : p.id # activeThreads[tIdx].id}
    ELSE {p \in pending : ThreadPos(activeThreads', p.id) # 0}

\* monitor.js:654-660: the thread states that the prune loop deleted, with
\* the offset each had reached.
PrunedNext ==
    IF Restarted THEN {}
    ELSE IF ~(pc = "chan" /\ pc' = "thr") THEN pruned
    ELSE pruned \cup
         { [id |-> activeThreads[k].id, offset |-> activeThreads[k].offset] :
             k \in { j \in 1..Len(activeThreads) :
                        ThreadPos(activeThreads', activeThreads[j].id) = 0 } }

\* monitor.js:618-621 and 696-698: how the latest channel fetch ended.
FetchFailedNext ==
    IF Restarted THEN FALSE
    ELSE IF pc = "loop" /\ pc' = "sleep" THEN TRUE
    ELSE IF pc = "loop" /\ pc' = "chan" THEN FALSE
    ELSE fetchFailed

\* The history of the fetches and of the thread tracker alone.
ObservePolls ==
    /\ UNCHANGED <<dispatchCount, evicted, recent, lastLen, prevLen, failed,
                   setLog>>
    /\ UNCHANGED <<callVars, moduleVars>>
    /\ pending' = PendingNext
    /\ pruned' = PrunedNext
    /\ fetchFailed' = FetchFailedNext

Observe ==
    /\ UNCHANGED <<callVars, moduleVars, setLog>>
    /\ pending' = PendingNext
    /\ pruned' = PrunedNext
    /\ fetchFailed' = FetchFailedNext
    /\ dispatchCount' = IF Restarted THEN ZeroCount
                        ELSE IF pc = "mark_proc" /\ pc' \in {"attach", "dispatch"}
                        THEN Bump(dispatchCount, cur.id)
                        ELSE dispatchCount
    /\ evicted' = IF Restarted THEN {}
                  ELSE evicted \cup (Range(processedIds) \ Range(processedIds'))
    /\ recent' = IF Restarted THEN <<>>
                 ELSE IF Entered
                 THEN LastN(Append(recent, cur'.id), MAX_PROCESSED_IDS + 1)
                 ELSE recent
    /\ lastLen' = IF Restarted THEN 0
                  ELSE IF pc = "loop" /\ pc' = "chan" THEN Len(msgs)
                  ELSE lastLen
    /\ prevLen' = IF Restarted THEN 0
                  ELSE IF pc = "loop" /\ pc' = "chan" THEN lastLen
                  ELSE prevLen
    /\ failed' = IF trace' = <<>> THEN {}
                 ELSE IF reactFails' # reactFails
                 THEN failed \cup {CallAt(pc)}
                 ELSE failed

\* ----------------------------------------------------- specifications
MsgKinds ==
    { [sender |-> "sender-1", t |-> FALSE, bot |-> FALSE],
      [sender |-> botUserId, t |-> FALSE, bot |-> FALSE],
      [sender |-> "sender-1", t |-> TRUE, bot |-> FALSE],
      [sender |-> "sender-1", t |-> FALSE, bot |-> TRUE] }

\* The engine with every kind of message, failure and restart; the history
\* variables are not kept.
Next ==
    \/ /\ Len(msgs) < MaxMsg
       /\ \E k \in MsgKinds, tmid \in {NoId} \cup Ids :
             Post(k.sender, k.t, k.bot, tmid)
       /\ UNCHANGED <<obsVars, callVars, moduleVars>>
    \/ Abort /\ UNCHANGED <<obsVars, callVars, moduleVars>>
    \/ Restart /\ UNCHANGED <<obsVars, callVars, moduleVars>>
    \/ (\E ok \in BOOLEAN : ResolveChannel(ok)) /\ UNCHANGED <<obsVars, callVars, moduleVars>>
    \/ LoopExit /\ UNCHANGED <<obsVars, callVars, moduleVars>>
    \/ (\E ok \in BOOLEAN : PollFetch(ok)) /\ UNCHANGED <<obsVars, callVars, moduleVars>>
    \/ ChanStep /\ UNCHANGED <<obsVars, callVars, moduleVars>>
    \/ (\E ok \in BOOLEAN : ChanContext(ok)) /\ UNCHANGED <<obsVars, callVars, moduleVars>>
    \/ ChanDone /\ UNCHANGED <<obsVars, callVars, moduleVars>>
    \/ (\E ok \in BOOLEAN : ThreadFetch(ok)) /\ UNCHANGED <<obsVars, callVars, moduleVars>>
    \/ (\E ok \in BOOLEAN : ThreadContext(ok)) /\ UNCHANGED <<obsVars, callVars, moduleVars>>
    \/ ReplyStep /\ UNCHANGED <<obsVars, callVars, moduleVars>>
    \/ ReplyDone /\ UNCHANGED <<obsVars, callVars, moduleVars>>
    \/ ThreadsDone /\ UNCHANGED <<obsVars, callVars, moduleVars>>
    \/ Sleep /\ UNCHANGED <<obsVars, callVars, moduleVars>>
    \/ (\E ok \in BOOLEAN : RemoveStaleX(ok)) /\ UNCHANGED <<obsVars, callVars, moduleVars>>
    \/ (\E ok \in BOOLEAN : markProcessing(ok)) /\ UNCHANGED <<obsVars, callVars, moduleVars>>
    \/ (\E ok \in BOOLEAN : AgentDeliver(ok)) /\ UNCHANGED <<obsVars, callVars, moduleVars>>
    \/ AgentOnError /\ UNCHANGED <<obsVars, callVars, moduleVars>>
    \/ AgentThrow /\ UNCHANGED <<obsVars, callVars, moduleVars>>
    \/ AgentReturn /\ UNCHANGED <<obsVars, callVars, moduleVars>>
    \/ (\E ok \in BOOLEAN : markCompleteRemove(ok)) /\ UNCHANGED <<obsVars, callVars, moduleVars>>
    \/ (\E ok \in BOOLEAN : markCompleteAdd(ok)) /\ UNCHANGED <<obsVars, callVars, moduleVars>>
    \/ (\E ok \in BOOLEAN : markFailedRemove(ok)) /\ UNCHANGED <<obsVars, callVars, moduleVars>>
    \/ (\E ok \in BOOLEAN : markFailedAdd(ok)) /\ UNCHANGED <<obsVars, callVars, moduleVars>>

Spec == Init /\ [][Next]_vars

\* A step of the engine itself: the loop condition, a fetch that settles, a
\* loop that moves on, the timer, a reaction call that settles, the dispatch
\* call that returns or throws.
EngineStep ==
    \/ \E ok \in BOOLEAN : ResolveChannel(ok)
    \/ LoopExit
    \/ \E ok \in BOOLEAN : PollFetch(ok)
    \/ ChanStep
    \/ \E ok \in BOOLEAN : ChanContext(ok)
    \/ ChanDone
    \/ \E ok \in BOOLEAN : ThreadFetch(ok)
    \/ \E ok \in BOOLEAN : ThreadContext(ok)
    \/ ReplyStep
    \/ ReplyDone
    \/ ThreadsDone
    \/ Sleep
    \/ \E ok \in BOOLEAN : RemoveStaleX(ok)
    \/ \E ok \in BOOLEAN : markProcessing(ok)
    \/ AgentThrow
    \/ AgentReturn
    \/ \E ok \in BOOLEAN : markCompleteRemove(ok)
    \/ \E ok \in BOOLEAN : markCompleteAdd(ok)
    \/ \E ok \in BOOLEAN : markFailedRemove(ok)
    \/ \E ok \in BOOLEAN : markFailedAdd(ok)

\* The engine of Spec where every awaited call settles and the timer fires:
\* the engine takes a step when one stays possible.  Nothing is assumed of
\* the host, the users or the callbacks of the agent.
SpecStop == Init /\ [][Next]_vars /\ WF_vars(EngineStep /\ UNCHANGED <<obsVars, callVars, moduleVars>>)

\* One call of buildInboundHistory, for every thread history, current
\* message and budget within the bounds.
SpecHist == InitCall /\ [][Call]_vars

\* One run of the engine that is not cancelled, among messages of users (top
\* level and replies), with the history variables kept.
NextCap ==
    \/ /\ Len(msgs) < MaxCapMsg
       /\ \E tmid \in {NoId} \cup Ids : Post("sender-1", FALSE, FALSE, tmid)
       /\ Observe
    \/ ResolveChannel(TRUE) /\ Observe
    \/ (\E ok \in BOOLEAN : PollFetch(ok)) /\ Observe
    \/ ChanStep /\ Observe
    \/ (\E ok \in BOOLEAN : ChanContext(ok)) /\ Observe
    \/ ChanDone /\ Observe
    \/ (\E ok \in BOOLEAN : ThreadFetch(ok)) /\ Observe
    \/ (\E ok \in BOOLEAN : ThreadContext(ok)) /\ Observe
    \/ ReplyStep /\ Observe
    \/ ReplyDone /\ Observe
    \/ ThreadsDone /\ Observe
    \/ Sleep /\ Observe
    \/ (\E ok \in BOOLEAN : RemoveStaleX(ok)) /\ Observe
    \/ (\E ok \in BOOLEAN : markProcessing(ok)) /\ Observe
    \/ AgentDeliver(TRUE) /\ Observe
    \/ AgentThrow /\ Observe
    \/ AgentReturn /\ Observe
    \/ (\E ok \in BOOLEAN : markCompleteRemove(ok)) /\ Observe
    \/ (\E ok \in BOOLEAN : markCompleteAdd(ok)) /\ Observe
    \/ (\E ok \in BOOLEAN : markFailedRemove(ok)) /\ Observe
    \/ (\E ok \in BOOLEAN : markFailedAdd(ok)) /\ Observe

SpecCap == Init /\ [][NextCap]_vars

\* One run of the engine that is not cancelled, among messages of users and
\* of the bot itself in several threads, with a clock; the fetches of the thread polls may fail,
\* every other call succeeds and the agent delivers; the history variables
\* are not kept.
NextThr ==
    \/ /\ Len(msgs) < MaxThrMsg
       /\ \E sender \in {"sender-1", botUserId}, tmid \in {NoId} \cup Ids :
             Post(sender, FALSE, FALSE, tmid)
       /\ UNCHANGED <<obsVars, callVars, moduleVars>>
    \/ Tick /\ UNCHANGED <<obsVars, callVars, moduleVars>>
    \/ ResolveChannel(TRUE) /\ UNCHANGED <<obsVars, callVars, moduleVars>>
    \/ PollFetch(TRUE) /\ UNCHANGED <<obsVars, callVars, moduleVars>>
    \/ ChanStep /\ UNCHANGED <<obsVars, callVars, moduleVars>>
    \/ ChanContext(TRUE) /\ UNCHANGED <<obsVars, callVars, moduleVars>>
    \/ ChanDone /\ UNCHANGED <<obsVars, callVars, moduleVars>>
    \/ (\E ok \in BOOLEAN : ThreadFetch(ok)) /\ UNCHANGED <<obsVars, callVars, moduleVars>>
    \/ (\E ok \in BOOLEAN : ThreadContext(ok)) /\ UNCHANGED <<obsVars, callVars, moduleVars>>
    \/ ReplyStep /\ UNCHANGED <<obsVars, callVars, moduleVars>>
    \/ ReplyDone /\ UNCHANGED <<obsVars, callVars, moduleVars>>
    \/ ThreadsDone /\ UNCHANGED <<obsVars, callVars, moduleVars>>
    \/ Sleep /\ UNCHANGED <<obsVars, callVars, moduleVars>>
    \/ markProcessing(TRUE) /\ UNCHANGED <<obsVars, callVars, moduleVars>>
    \/ AgentDeliver(TRUE) /\ UNCHANGED <<obsVars, callVars, moduleVars>>
    \/ AgentReturn /\ delivered /\ UNCHANGED <<obsVars, callVars, moduleVars>>
    \/ markCompleteRemove(TRUE) /\ UNCHANGED <<obsVars, callVars, moduleVars>>
    \/ markCompleteAdd(TRUE) /\ UNCHANGED <<obsVars, callVars, moduleVars>>

SpecThr == Init /\ [][NextThr]_vars

\* The engine and its clock: users post top-level messages and replies;
\* time passes in the sleep and while the agent works; the channel fetch,
\* the reply fetch and the context fetch of a thread may fail; the agent
\* delivers or not, and returns. No restart and no abort.
NextTtl ==
    \/ /\ Len(msgs) < MaxThrMsg
       /\ \E tmid \in {NoId} \cup Ids : Post("sender-1", FALSE, FALSE, tmid)
       /\ UNCHANGED <<obsVars, callVars, moduleVars>>
    \/ Tick /\ ObservePolls
    \/ Elapse /\ ObservePolls
    \/ ResolveChannel(TRUE) /\ ObservePolls
    \/ (\E ok \in BOOLEAN : PollFetch(ok)) /\ ObservePolls
    \/ ChanStep /\ ObservePolls
    \/ ChanContext(TRUE) /\ ObservePolls
    \/ ChanDone /\ ObservePolls
    \/ (\E ok \in BOOLEAN : ThreadFetch(ok)) /\ ObservePolls
    \/ (\E ok \in BOOLEAN : ThreadContext(ok)) /\ ObservePolls
    \/ ReplyStep /\ ObservePolls
    \/ ReplyDone /\ ObservePolls
    \/ ThreadsDone /\ ObservePolls
    \/ Sleep /\ ObservePolls
    \/ RemoveStaleX(TRUE) /\ ObservePolls
    \/ markProcessing(TRUE) /\ ObservePolls
    \/ AgentDeliver(TRUE) /\ ObservePolls
    \/ AgentReturn /\ ObservePolls
    \/ markCompleteRemove(TRUE) /\ ObservePolls
    \/ markCompleteAdd(TRUE) /\ ObservePolls
    \/ markFailedRemove(TRUE) /\ ObservePolls
    \/ markFailedAdd(TRUE) /\ ObservePolls

SpecTtl == Init /\ [][NextTtl]_vars

\* The setRuntime call with the argument h enters the log.
LogSet(h) ==
    /\ setLog' = [last |-> h, nonNull |-> setLog.nonNull \/ h # NoRuntime]
    /\ UNCHANGED <<dispatchCount, evicted, recent, lastLen, prevLen, failed,
                   pending, pruned, fetchFailed>>

\* The engine started before the plugin is registered: setRuntime is called
\* at any time with null or a handle, users post top-level messages, the
\* dispatch asks for the handle first and may end without a delivery.
NextRt ==
    \/ /\ Len(msgs) < MaxRtMsg
       /\ Post("sender-1", FALSE, FALSE, NoId)
       /\ UNCHANGED <<obsVars, callVars, moduleVars>>
    \/ \E h \in {NoRuntime} \cup Handles :
          setRuntime(h) /\ LogSet(h) /\ UNCHANGED callVars
    \/ ResolveChannel(TRUE) /\ UNCHANGED <<obsVars, callVars, moduleVars>>
    \/ PollFetch(TRUE) /\ UNCHANGED <<obsVars, callVars, moduleVars>>
    \/ ChanStep /\ UNCHANGED <<obsVars, callVars, moduleVars>>
    \/ ChanDone /\ UNCHANGED <<obsVars, callVars, moduleVars>>
    \/ ThreadsDone /\ UNCHANGED <<obsVars, callVars, moduleVars>>
    \/ Sleep /\ UNCHANGED <<obsVars, callVars, moduleVars>>
    \/ RemoveStaleX(TRUE) /\ UNCHANGED <<obsVars, callVars, moduleVars>>
    \/ markProcessing(TRUE) /\ UNCHANGED <<obsVars, callVars, moduleVars>>
    \/ ResolveRuntime /\ UNCHANGED <<obsVars, callVars, moduleVars>>
    \/ /\ HasRuntime
       /\ AgentDeliver(TRUE)
       /\ UNCHANGED <<obsVars, callVars, moduleVars>>
    \/ /\ HasRuntime
       /\ AgentReturn
       /\ UNCHANGED <<obsVars, callVars, moduleVars>>
    \/ markCompleteRemove(TRUE) /\ UNCHANGED <<obsVars, callVars, moduleVars>>
    \/ markCompleteAdd(TRUE) /\ UNCHANGED <<obsVars, callVars, moduleVars>>
    \/ markFailedRemove(TRUE) /\ UNCHANGED <<obsVars, callVars, moduleVars>>
    \/ markFailedAdd(TRUE) /\ UNCHANGED <<obsVars, callVars, moduleVars>>

SpecRt == InitRt /\ [][NextRt]_vars

\* The engine with messages that carry file attachments: users post
\* top-level messages and replies with up to MaxFiles files; routing, the
\* temporary directory, every download, every delivery, the agent and the
\* context fetches may fail. No restart and no abort.
NextAtt ==
    \/ /\ Len(msgs) < MaxAttMsg
       /\ \E tmid \in {NoId} \cup Ids, n \in 0..MaxFiles :
             PostMessage("sender-1", FALSE, FALSE, tmid, n)
       /\ UNCHANGED <<obsVars, callVars, moduleVars>>
    \/ ResolveChannel(TRUE) /\ UNCHANGED <<obsVars, callVars, moduleVars>>
    \/ PollFetch(TRUE) /\ UNCHANGED <<obsVars, callVars, moduleVars>>
    \/ ChanStep /\ UNCHANGED <<obsVars, callVars, moduleVars>>
    \/ (\E ok \in BOOLEAN : ChanContext(ok)) /\ UNCHANGED <<obsVars, callVars, moduleVars>>
    \/ ChanDone /\ UNCHANGED <<obsVars, callVars, moduleVars>>
    \/ ThreadFetch(TRUE) /\ UNCHANGED <<obsVars, callVars, moduleVars>>
    \/ ThreadContext(TRUE) /\ UNCHANGED <<obsVars, callVars, moduleVars>>
    \/ ReplyStep /\ UNCHANGED <<obsVars, callVars, moduleVars>>
    \/ ReplyDone /\ UNCHANGED <<obsVars, callVars, moduleVars>>
    \/ ThreadsDone /\ UNCHANGED <<obsVars, callVars, moduleVars>>
    \/ Sleep /\ UNCHANGED <<obsVars, callVars, moduleVars>>
    \/ RemoveStaleX(TRUE) /\ UNCHANGED <<obsVars, callVars, moduleVars>>
    \/ markProcessing(TRUE) /\ UNCHANGED <<obsVars, callVars, moduleVars>>
    \/ RouteThrow /\ UNCHANGED <<obsVars, callVars, moduleVars>>
    \/ (\E ok \in BOOLEAN : MakeTempDir(ok)) /\ UNCHANGED <<obsVars, callVars, moduleVars>>
    \/ (\E ok \in BOOLEAN : Download(ok)) /\ UNCHANGED <<obsVars, callVars, moduleVars>>
    \/ (\E ok \in BOOLEAN : AgentDeliver(ok)) /\ UNCHANGED <<obsVars, callVars, moduleVars>>
    \/ AgentOnError /\ UNCHANGED <<obsVars, callVars, moduleVars>>
    \/ AgentThrow /\ UNCHANGED <<obsVars, callVars, moduleVars>>
    \/ AgentReturn /\ UNCHANGED <<obsVars, callVars, moduleVars>>
    \/ markCompleteRemove(TRUE) /\ UNCHANGED <<obsVars, callVars, moduleVars>>
    \/ markCompleteAdd(TRUE) /\ UNCHANGED <<obsVars, callVars, moduleVars>>
    \/ markFailedRemove(TRUE) /\ UNCHANGED <<obsVars, callVars, moduleVars>>
    \/ markFailedAdd(TRUE) /\ UNCHANGED <<obsVars, callVars, moduleVars>>

SpecAtt == Init /\ [][NextAtt]_vars

\* users posted while it runs; the agent answers or not, and returns; the
\* reaction calls succeed.
NextLive ==
    \/ /\ Len(msgs) < MaxLiveMsg
       /\ pc # "start"
       /\ Post("sender-1", FALSE, FALSE, NoId)
       /\ Observe
    \/ ResolveChannel(TRUE) /\ Observe
    \/ PollFetch(FALSE) /\ Observe
    \/ PollFetch(TRUE) /\ Observe
    \/ ChanStep /\ Observe
    \/ ChanDone /\ Observe
    \/ ThreadsDone /\ Observe
    \/ Sleep /\ Observe
    \/ RemoveStaleX(TRUE) /\ Observe
    \/ markProcessing(TRUE) /\ Observe
    \/ AgentDeliver(TRUE) /\ Observe
    \/ AgentReturn /\ Observe
    \/ markCompleteRemove(TRUE) /\ Observe
    \/ markCompleteAdd(TRUE) /\ Observe
    \/ markFailedRemove(TRUE) /\ Observe
    \/ markFailedAdd(TRUE) /\ Observe

\* Every step of the engine is eventually taken when it stays possible (the
\* awaited call settles, the timer fires), and the history fetch, tried again
\* in every cycle, eventually succeeds.
Fairness ==
    /\ WF_vars(ResolveChannel(TRUE) /\ Observe)
    /\ SF_vars(PollFetch(TRUE) /\ Observe)
    /\ WF_vars(ChanStep /\ Observe)
    /\ WF_vars(ChanDone /\ Observe)
    /\ WF_vars(ThreadsDone /\ Observe)
    /\ WF_vars(Sleep /\ Observe)
    /\ WF_vars(RemoveStaleX(TRUE) /\ Observe)
    /\ WF_vars(markProcessing(TRUE) /\ Observe)
    /\ WF_vars(AgentReturn /\ Observe)
    /\ WF_vars(markCompleteRemove(TRUE) /\ Observe)
    /\ WF_vars(markCompleteAdd(TRUE) /\ Observe)
    /\ WF_vars(markFailedRemove(TRUE) /\ Observe)
    /\ WF_vars(markFailedAdd(TRUE) /\ Observe)

SpecLive == Init /\ [][NextLive]_vars /\ Fairness

\* ------------------------------------------------------------- claims
Check == "white_check_mark"

PostOps == {"post", "post_failed"}

Ops(tr) == [k \in 1..Len(tr) |-> tr[k].op]

Count(tr, op) == Cardinality({k \in 1..Len(tr) : tr[k].op = op})

\* The snapshot of the message whose calls trace holds: the one inside
\* processMessage, or the one processMessage has just returned from.
Held == IF pc \in ProcPcs THEN batch[idx] ELSE batch[idx - 1]

\* The channel loop is at, or inside, one of its iterations.
InChannelLoop == tIdx = 0 /\ pc \in {"chan", "ctx"} \cup ProcPcs

\* The id was in the window of the channel fetch before the latest one.
InPrevWindow(id) == prevLen - HISTORY_COUNT < id /\ id <= prevLen

\* batch[i] is eligible by its snapshot, was returned by the two latest
\* channel fetches of this run, and both cycles are done with it.
SeenTwice(i) ==
    /\ InChannelLoop
    /\ i < idx
    /\ Unmarked(batch[i])
    /\ InPrevWindow(batch[i].id)

\* C1 as stated: a message without checkmark that two consecutive channel
\* fetches of one run return has been dispatched exactly once in total.
C1_Orig ==
    \A i \in 1..Len(batch) : SeenTwice(i) => dispatchCount[batch[i].id] = 1

\* C1: a message without checkmark that two consecutive channel fetches of
\* one run return, and whose id has not been evicted from processedIds in
\* this run, has been dispatched exactly once in total.
C1 ==
    \A i \in 1..Len(batch) :
        SeenTwice(i) /\ batch[i].id \notin evicted
            => dispatchCount[batch[i].id] = 1

C1_Witness ==
    \E i \in 1..Len(batch) :
        /\ SeenTwice(i)
        /\ batch[i].id \notin evicted
        /\ dispatchCount[batch[i].id] = 1

Dispatched(m) == dispatchCount[m] >= 1

InWindow(m) == pc = "chan" /\ \E i \in 1..Len(batch) : batch[i].id = m

\* C2 as stated: every eligible message posted while the engine runs is
\* eventually dispatched, however many messages are posted between two polls.
C2_Orig == \A m \in 1..MaxLiveMsg : (Len(msgs) >= m) ~> Dispatched(m)

\* C2: every eligible message that a channel fetch returns is eventually
\* dispatched (the engine is not cancelled, fetches eventually succeed).
C2 == \A m \in 1..MaxLiveMsg : InWindow(m) ~> Dispatched(m)

C2_Witness ==
    /\ pc = "dispatch"
    /\ Len(msgs) > HISTORY_COUNT
    /\ dispatchCount[cur.id] = 1

\* The filter is applied to batch[idx], in the channel loop or a reply loop.
FilterStep ==
    \/ ChanStep /\ batch[idx].tmid = NoId
    \/ \E ok \in BOOLEAN : ChanContext(ok)
    \/ ReplyStep

\* C3 as stated: a message that ended failed (x in its snapshot, no
\* checkmark) is processed again by the next cycle that returns it, the stale
\* x being removed first.
C3_Orig ==
    [][FilterStep /\ Unmarked(batch[idx]) /\ batch[idx].x
          => pc' = "rm_x" /\ cur'.id = batch[idx].id]_vars

\* C3: a message that ended failed is processed again, the stale x being
\* removed first, by the next cycle that returns it while its id is not in
\* processedIds; while its id is in processedIds it is skipped untouched.
C3 ==
    [][FilterStep /\ Unmarked(batch[idx]) /\ batch[idx].x
          => IF has(processedIds, batch[idx].id)
             THEN /\ pc' \in {"chan", "reply"}
                  /\ idx' = idx + 1
                  /\ rx' = rx
                  /\ cur' = cur
             ELSE pc' = "rm_x" /\ cur'.id = batch[idx].id]_vars

C3_Witness == pc = "rm_x" /\ cur.x /\ "x" \in rx[cur.id]

\* C4: a message whose snapshot carries the checkmark is never inside
\* processMessage and no dispatch or reaction call is made for it, in the
\* channel loop and in reply loops, in every run.
C4 ==
    /\ pc \in ProcPcs => ~batch[idx].check /\ batch[idx].id = cur.id
    /\ trace # <<>> =>
          /\ ~Held.check
          /\ \A k \in 1..Len(trace) :
                trace[k].op \notin PostOps => trace[k].arg = Held.id

C4_Witness ==
    /\ pc \in {"chan", "reply"}
    /\ idx > 1
    /\ batch[idx - 1].check
    /\ ~has(processedIds, batch[idx - 1].id)
    /\ trace = <<>>

\* The step in which the second call of markComplete is made.
Completes == pc = "complete2" /\ pc' # "complete2"

KeepsCheck == \A i \in 1..Len(rx) : Check \in rx[i] => Check \in rx'[i]

NoDispatchOfChecked == pc' = "dispatch" => Check \notin rx'[cur'.id]

\* C5 as stated: a message whose dispatch succeeded ends with the checkmark
\* on the chat service, whether or not reaction calls fail, and from then on
\* the checkmark stays and the message is not dispatched, in every run.
C5_Orig ==
    [][/\ Completes => Check \in rx'[cur.id]
       /\ KeepsCheck
       /\ NoDispatchOfChecked]_vars

\* C5: a message whose dispatch succeeded ends with the checkmark on the chat
\* service provided the checkmark:add call succeeds; a checkmark stays, and a
\* message that has it is not dispatched, in every run.
C5 ==
    [][/\ Completes /\ reactFails' = reactFails => Check \in rx'[cur.id]
       /\ KeepsCheck
       /\ NoDispatchOfChecked]_vars

C5_Witness ==
    /\ pc \in {"chan", "reply"}
    /\ trace # <<>>
    /\ trace[Len(trace)].op = "white_check_mark:add"
    /\ Check \in rx[Held.id]
    /\ reactFails > 0

\* Posted by the bot account, a system event, or flagged bot-authored.
Excluded(i) == msgs[i].sender = botUserId \/ msgs[i].t \/ msgs[i].bot

\* C6: a message of the bot account, a system event or a bot-authored
\* message is never inside processMessage and is never dispatched.
C6 ==
    /\ pc \in ProcPcs => ~Excluded(cur.id)
    /\ \A k \in 1..Len(trace) :
          trace[k].op = "dispatch" => ~Excluded(trace[k].arg)

C6_Witness ==
    /\ pc = "reply"
    /\ idx > 1
    /\ Excluded(batch[idx - 1].id)
    /\ trace = <<>>

StartsWith(tr, ops) ==
    \A k \in 1..Min(Len(tr), Len(ops)) : tr[k].op = ops[k]

\* C7: for a message that passes the filter with x in its snapshot the calls
\* start with x:remove, hourglass:add, dispatch; without x they start with
\* hourglass:add, dispatch and hold no x:remove.
C7 ==
    /\ pc = "mark_proc" => trace = IF cur.x THEN <<Ev("x:remove", cur.id)>>
                                            ELSE <<>>
    /\ pc \in ProcPcs \ {"rm_x", "mark_proc"} => Count(trace, "dispatch") = 1
    /\ trace # <<>> =>
          IF Held.x
          THEN StartsWith(trace, <<"x:remove", "hourglass:add", "dispatch">>)
          ELSE /\ StartsWith(trace, <<"hourglass:add", "dispatch">>)
               /\ Count(trace, "x:remove") = 0

C7_Witness ==
    /\ pc = "dispatch"
    /\ cur.x
    /\ Ops(trace) = <<"x:remove", "hourglass:add", "dispatch">>

\* The channel loop has gone through a first batch of more than
\* MAX_PROCESSED_IDS messages, all eligible.
BigBatchDone ==
    /\ pc = "chan"
    /\ tIdx = 0
    /\ idx > Len(batch)
    /\ Len(batch) > MAX_PROCESSED_IDS
    /\ prevLen = 0
    /\ \A i \in 1..Len(batch) : Unmarked(batch[i])

\* C8: processedIds never holds more than MAX_PROCESSED_IDS ids, and a first
\* batch of N > MAX_PROCESSED_IDS eligible messages gives exactly N
\* dispatches, one per message.
C8 ==
    /\ Len(processedIds) <= MAX_PROCESSED_IDS
    /\ BigBatchDone =>
          \A m \in Ids :
             dispatchCount[m] =
                IF \E i \in 1..Len(batch) : batch[i].id = m THEN 1 ELSE 0

C8_Witness == BigBatchDone /\ Len(processedIds) = MAX_PROCESSED_IDS

\* C9: processedIds is the last min(n, MAX_PROCESSED_IDS) ids inserted, all
\* distinct; an insertion at the cap deletes exactly the earliest-inserted id
\* and keeps the new one; a message whose id is in the set leaves it as it is.
C9 ==
    /\ [](/\ processedIds = LastN(recent, MAX_PROCESSED_IDS)
          /\ Cardinality(Range(processedIds)) = Len(processedIds))
    /\ [][/\ processedIds' # processedIds =>
                processedIds' =
                   IF Len(processedIds) = MAX_PROCESSED_IDS
                   THEN Append(Tail(processedIds), cur'.id)
                   ELSE Append(processedIds, cur'.id)
          /\ FilterStep /\ has(processedIds, batch[idx].id) =>
                processedIds' = processedIds]_vars

C9_Witness ==
    /\ Len(recent) = MAX_PROCESSED_IDS + 1
    /\ processedIds = LastN(recent, MAX_PROCESSED_IDS)
    /\ recent[1] \notin Range(processedIds)

\* processMessage has returned from a top-level message without x in its
\* snapshot, whose dispatch made one delivery, which succeeded, called no
\* onError and did not throw.
HappyCase ==
    /\ pc \in {"chan", "reply"}
    /\ trace # <<>>
    /\ Held.tmid = NoId
    /\ ~Held.x
    /\ Count(trace, "post") = 1
    /\ Count(trace, "post_failed") = 0
    /\ Count(trace, "onError") = 0
    /\ Count(trace, "throw") = 0

\* C10: on the happy path the calls are exactly hourglass:add, the dispatch
\* with one post to the thread of the message's own id, hourglass:remove,
\* checkmark:add.
C10 ==
    HappyCase =>
        trace = <<Ev("hourglass:add", Held.id), Ev("dispatch", Held.id),
                  Ev("post", Held.id), Ev("hourglass:remove", Held.id),
                  Ev("white_check_mark:add", Held.id)>>

C10_Witness == HappyCase /\ Len(trace) = 5 /\ Check \in rx[Held.id]

\* ---------------------------------------------------- C11: a throw
ReactionNames == {"x:remove", "hourglass:add", "hourglass:remove",
                  "white_check_mark:add", "x:add"}

\* The reaction calls of a trace, in order.
ReactionCalls(tr) ==
    SelectSeq(tr, LAMBDA e : e.op \in ReactionNames)

IsPrefix(a, b) == Len(a) <= Len(b) /\ a = SubSeq(b, 1, Len(a))

\* The dispatch of the message whose calls trace holds has thrown.
Thrown == Count(trace, "throw") = 1

ThrowPos == CHOOSE k \in 1..Len(trace) : trace[k].op = "throw"

FailedCalls(m) ==
    <<Ev("hourglass:add", m.id), Ev("hourglass:remove", m.id),
      Ev("x:add", m.id)>>

\* C11 as stated: after a throw the reaction calls are exactly hourglass:add,
\* hourglass:remove, x:add, and no post was made for the message.
C11_Orig ==
    Thrown /\ pc \in {"chan", "reply"}
        => /\ ReactionCalls(trace) = FailedCalls(Held)
           /\ Count(trace, "post") = 0

\* C11: when the dispatch throws, the reaction calls for the message are
\* hourglass:add, hourglass:remove, x:add, after an x:remove when the
\* snapshot carried x; nothing but these reaction calls follows the throw
\* (no post, no checkmark), and the posts made are those of the deliveries
\* that came before the throw.
C11 ==
    Thrown =>
        LET expected == (IF Held.x THEN <<Ev("x:remove", Held.id)>> ELSE <<>>)
                            \o FailedCalls(Held)
        IN  /\ IsPrefix(ReactionCalls(trace), expected)
            /\ pc \in {"chan", "reply"} => ReactionCalls(trace) = expected
            /\ \A k \in 1..Len(trace) :
                   k > ThrowPos => trace[k].op \in ReactionNames
            /\ pc \in {"fail1", "fail2", "chan", "reply"}

C11_Witness ==
    /\ Thrown
    /\ pc \in {"chan", "reply"}
    /\ Held.x
    /\ Count(trace, "post") = 1
    /\ trace[Len(trace)] = Ev("x:add", Held.id)

\* --------------------------------------------- C12: outcome of a dispatch
\* A delivery posted, the error callback was not invoked, nothing was thrown.
Succeeded ==
    /\ Count(trace, "post") >= 1
    /\ Count(trace, "onError") = 0
    /\ Count(trace, "throw") = 0

\* processMessage has returned from a message it dispatched.
Processed == pc \in {"chan", "reply"} /\ Count(trace, "dispatch") = 1

LastOp == trace[Len(trace)].op

\* C12: a processed message is marked complete if and only if a delivery
\* posted, the error callback was never invoked and the dispatch did not
\* throw; otherwise it is marked failed, also when a delivery came before or
\* after the error callback.
C12 ==
    /\ pc \in {"complete1", "complete2"} => Succeeded
    /\ pc \in {"fail1", "fail2"} => ~Succeeded
    /\ Processed =>
          /\ LastOp = "white_check_mark:add" <=> Succeeded
          /\ LastOp = "x:add" <=> ~Succeeded
          /\ Count(trace, "white_check_mark:add") + Count(trace, "x:add") = 1

C12_Witness ==
    /\ Processed
    /\ LastOp = "x:add"
    /\ \E i, j \in 1..Len(trace) :
          i < j /\ trace[i].op = "post" /\ trace[j].op = "onError"

\* ------------------------------------------------- C13: reply targeting
\* The posts of the message whose calls trace holds.
Posts == SelectSeq(trace, LAMBDA e : e.op \in PostOps)

\* The message whose calls trace holds was obtained by a thread poll.
FromThreadPoll == tIdx >= 1

\* C13: every post of the delivery callback targets the parent thread id for
\* a reply seen in the channel history, the root id of the tracked thread for
\* a message obtained by a thread poll, and the message's own id for a
\* top-level message; it never targets the own id of a reply.
C13 ==
    \A k \in 1..Len(Posts) :
        /\ ~FromThreadPoll /\ Held.tmid # NoId => Posts[k].arg = Held.tmid
        /\ FromThreadPoll => Posts[k].arg = activeThreads[tIdx].id
        /\ Held.tmid = NoId => Posts[k].arg = Held.id
        /\ Held.tmid # NoId => Posts[k].arg # Held.id

C13_Witness ==
    /\ FromThreadPoll
    /\ pc = "reply"
    /\ Len(Posts) = 1
    /\ Held.tmid # NoId
    /\ LastOp = "white_check_mark:add"

\* --------------------------------- C14: the signal is set before the call
\* Nothing of the engine's work has been done: no fetch result is held, no
\* message was taken up, no reaction call was made or failed.
NoWorkStep ==
    /\ UNCHANGED <<processedIds, activeThreads, batch, idx, tIdx, cur,
                   reactFails, delivered, deliveryError>>
    /\ \A i \in 1..Len(rx) : rx'[i] = rx[i]
    /\ trace' = <<>> \/ trace' = trace

\* C14: with the signal set before monitorRocketChat is called, the engine
\* resolves the channel (once: the only step that leaves the start), makes
\* no history fetch, no thread fetch and no dispatch, logs the stop marker
\* and returns.
C14 ==
    [][/\ aborted /\ pc = "start"
            => pc' \in {"start", "loop", "fatal"} /\ NoWorkStep
       /\ aborted /\ pc = "loop"
            => pc' \in {"loop", "stopped"} /\ NoWorkStep
       /\ pc' = "loop" /\ pc # "loop" => pc \in {"start", "sleep"}]_vars

C14_Witness ==
    /\ pc = "stopped"
    /\ aborted
    /\ processedIds = <<>>
    /\ batch = <<>>
    /\ reactFails = 0
    /\ Len(msgs) = MaxMsg
    /\ \A i \in 1..Len(msgs) : Unmarked(Snapshot(i)) /\ rx[i] = {}

\* ------------------------------------------ C15: cancellation checkpoints
\* The channel fetch of a poll cycle is made.
BeginsPoll == pc = "loop" /\ pc' \in {"chan", "sleep"}

\* The reply fetch of a tracked thread is made.
BeginsThread ==
    pc = "thr" /\ (pc' = "tctx" \/ (pc' = "thr" /\ tIdx' = tIdx + 1))

\* An iteration of the channel loop or of a reply loop starts on a message.
BeginsMessage ==
    /\ pc \in {"chan", "reply"}
    /\ pc' \in {"ctx", "rm_x", "mark_proc"} \/ (pc' = pc /\ idx' = idx + 1)

\* C15 as stated: with the signal set the engine never begins processing a
\* message, a channel fetch or a per-thread reply fetch.
C15_Orig ==
    [][aborted => ~(Entered \/ BeginsPoll \/ BeginsThread)]_vars

\* C15: with the signal set the engine begins no poll cycle, no iteration on
\* a message of the channel window or of a thread page, and no poll of a
\* tracked thread: the rest of the batch and of the threads is skipped.  A
\* message is taken up with the signal set only when the signal was set
\* during the thread-context fetch of its own iteration.
C15 ==
    [][aborted =>
          /\ ~(BeginsPoll \/ BeginsThread \/ BeginsMessage)
          /\ Entered => pc = "ctx"
          /\ pc = "chan" /\ pc' # "chan" => pc' = "thr"
          /\ pc = "reply" /\ pc' # "reply" => pc' = "thr"
          /\ pc = "thr" /\ pc' # "thr" => pc' = "sleep"
          /\ pc = "loop" /\ pc' # "loop" => pc' = "stopped"]_vars

C15_Witness ==
    /\ aborted
    /\ pc = "chan"
    /\ idx > 1
    /\ idx <= Len(batch)
    /\ Unmarked(batch[idx])
    /\ ~has(processedIds, batch[idx].id)
    /\ has(processedIds, batch[idx - 1].id)

\* ---------------------------------------------------- C16: termination
Running == pc \notin {"start", "fatal", "stopped"}

\* C16: once the engine runs, the signal set at any point leads to the
\* stopped state (the stop marker logged, a normal return) when every call
\* in flight settles.
C16 == (aborted /\ Running) ~> pc = "stopped"

C16_Witness ==
    /\ pc = "stopped"
    /\ aborted
    /\ processedIds # <<>>
    /\ activeThreads # <<>>

\* -------------------------------------------------------- C17: startup
\* C17: the channel is resolved once per run (the resolution is the only
\* step out of the start, and only a new run comes back to the start); when
\* it fails the error goes to the caller: no fetch, no dispatch, no stop
\* marker ever follow in that run.
C17 ==
    [][/\ pc' = "start" /\ pc # "start" => pc \in {"stopped", "fatal"}
       /\ pc = "start" /\ pc' # "start" => pc' \in {"loop", "fatal"}
       /\ ResolveChannel(FALSE) => pc' = "fatal"
       /\ pc' = "fatal" /\ pc # "fatal"
             => pc = "start" /\ NoWorkStep /\ trace = <<>> /\ batch = <<>>
                 /\ processedIds = <<>> /\ activeThreads = <<>>
       /\ pc = "fatal" /\ pc' # "fatal"
             => pc' = "start" /\ processedIds' = <<>>]_vars

C17_Witness ==
    /\ pc = "fatal"
    /\ Len(msgs) = MaxMsg
    /\ \A i \in 1..Len(msgs) : Unmarked(Snapshot(i)) /\ rx[i] = {}

\* ------------------------------------------- C18: failures while running
\* C18: once the engine runs, no failed fetch, dispatch or reaction call ends
\* it: it leaves the running states only to the stopped state and only with
\* the signal set; a failed channel fetch goes to the sleep, a failed thread
\* fetch to the next thread, a failed dispatch or reaction call to the next
\* step of processMessage; and from every running state the engine comes to
\* the head of the loop again.
C18 ==
    /\ [][/\ Running /\ pc' \in {"start", "fatal", "stopped"}
                => pc' = "stopped" /\ aborted
          /\ PollFetch(FALSE) => pc' = "sleep"
          /\ ThreadFetch(FALSE) \/ ThreadContext(FALSE)
                => pc' = "thr" /\ tIdx' = tIdx + 1
          /\ AgentThrow => pc' = "fail1"
          /\ pc = "sleep" /\ pc' # "sleep" => pc' = "loop"]_vars
    /\ Running ~> pc = "loop"

C18_Witness ==
    /\ pc = "loop"
    /\ ~aborted
    /\ reactFails > 0
    /\ \E i \in 1..Len(msgs) : "x" \in rx[i]

\* ------------------------------------- C19: a thread fetch that fails
\* A fetch of the poll of the tracked thread at tIdx fails: the reply fetch,
\* or the context fetch that follows it.
ThreadPollFails == ThreadFetch(FALSE) \/ ThreadContext(FALSE)

\* C19: when a fetch for one tracked thread fails, the thread loop goes on
\* with the next tracked thread and ends only after the last one, so every
\* other thread is polled in the same cycle; the processed ids and the
\* reactions of the messages handled before are as they were, and so are
\* the offset and the lastSeen of the failing thread.
C19 ==
    [][/\ ThreadPollFails
             => /\ pc' = "thr"
                /\ tIdx' = tIdx + 1
                /\ activeThreads' = activeThreads
                /\ processedIds' = processedIds
                /\ rx' = rx
       /\ pc = "thr" /\ pc' = "sleep" /\ ~aborted
             => tIdx > Len(activeThreads)
       /\ pc \in {"thr", "tctx", "reply"} /\ pc' = "thr"
             => tIdx' \in {tIdx, tIdx + 1}]_vars

\* The poll of the first thread failed with replies waiting, the second
\* thread is polled next.
C19_Witness ==
    /\ pc = "thr"
    /\ tIdx = 2
    /\ Len(activeThreads) = 2
    /\ activeThreads[1].offset < Len(ThreadIds(activeThreads[1].id))
    /\ activeThreads[1].lastSeen < now
    /\ Len(getThreadMessages(activeThreads[2].id, THREAD_POLL_COUNT,
                             activeThreads[2].offset)) > 0

\* ----------------------------------------------- C20: reaction marker
\* A step inside markProcessing, markComplete or markFailed: one chat.react
\* call settles, by success or by failure.
MarkerStep ==
    pc \in {"mark_proc", "complete1", "complete2", "fail1", "fail2"}

AfterMarker(p) ==
    CASE p = "mark_proc" -> {"attach", "dispatch"}
      [] p = "complete1" -> {"complete2"}
      [] p = "fail1"     -> {"fail2"}
      [] OTHER           -> {"chan", "reply"}

\* The call made by the marker step from position p.
MarkerCall(p) ==
    CASE p = "mark_proc" -> "hourglass:add"
      [] p = "complete1" -> "hourglass:remove"
      [] p = "complete2" -> "white_check_mark:add"
      [] p = "fail1"     -> "hourglass:remove"
      [] OTHER           -> "x:add"

\* C20: markProcessing, markComplete and markFailed never raise: whether
\* the reaction call fails or not, the engine goes on to the same next
\* position; markComplete and markFailed call hourglass:remove first and
\* then the add, and the add is called also when the removal failed.
C20 ==
    [][MarkerStep /\ pc' # pc =>
          /\ pc' \in AfterMarker(pc)
          /\ \E k \in 1..Len(trace') :
                /\ trace'[k] = Ev(MarkerCall(pc), cur.id)
                /\ \A j \in 1..Len(trace') :
                      j > k => trace'[j].op = "dispatch"
          /\ pc \in {"complete2", "fail2"} =>
                trace[Len(trace)] = Ev("hourglass:remove", cur.id)]_vars

\* markComplete ends with its two calls made although the removal of the
\* hourglass failed: the hourglass is still on the message.
C20_Witness ==
    /\ Processed
    /\ LastOp = "white_check_mark:add"
    /\ rx[Held.id] = {"hourglass", "white_check_mark"}

\* ------------------------------------- C21: one lifecycle emoji at the end
Lifecycle == {"hourglass", "white_check_mark", "x"}

\* The lifecycle emoji now on the message whose calls trace holds.
Marks == rx[Held.id] \cap Lifecycle

\* C21 as stated: an attempt never ends with more than one lifecycle emoji
\* on the message, whichever reaction calls failed.
C21_Orig == Processed => Cardinality(Marks) <= 1

\* C21: an attempt whose reaction calls all succeeded ends with exactly one
\* lifecycle emoji on the message, the checkmark when it was marked complete
\* and x when it was marked failed, and without the hourglass; this also
\* holds when an earlier attempt left two emoji behind.  (An attempt with a
\* failed reaction call may end with more than one: C21_Orig.)
C21 ==
    Processed /\ failed = {} =>
        Marks = IF LastOp = "white_check_mark:add"
                THEN {"white_check_mark"} ELSE {"x"}

\* A second attempt, without a failed call, on a message that an earlier
\* attempt left with a failed call.
C21_Witness ==
    /\ Processed
    /\ failed = {}
    /\ reactFails > 0
    /\ Held.x
    /\ Marks = {"white_check_mark"}

\* -------------------------------------------- C22: removals that toggle
\* C22: the engine calls a removal for an emoji on a message only when it
\* knows the emoji is on the message: x only when the snapshot carries x,
\* the hourglass only after its own hourglass:add for the message succeeded.
C22_Orig ==
    [][/\ pc = "rm_x" /\ pc' # pc => cur.x
       /\ pc \in {"complete1", "fail1"} /\ pc' # pc
             => "hourglass:add" \notin failed]_vars

\* The hourglass:add of the attempt failed, every later call succeeded: the
\* removal of the hourglass has put the hourglass on the message.
C22_Witness ==
    /\ Processed
    /\ failed = {"hourglass:add"}
    /\ "hourglass" \in rx[Held.id]
    /\ Cardinality(Marks) = 2

\* --------------------------------- C24, C25, C26: buildInboundHistory
\* The prior messages of the call, oldest first.
Prior == SelectSeq(threadHistory, LAMBDA m : m.id # currentMsgId)

\* The message of the thread history that the i-th returned entry is for.
Orig(i) == CHOOSE m \in Range(threadHistory) : m.id = result[i].id

Truncated(i) == result[i].body # Orig(i).msg

RECURSIVE TotalChars(_)
TotalChars(entries) ==
    IF entries = <<>> THEN 0
    ELSE Len(entries[1].body) + TotalChars(Tail(entries))

\* The characters left for the oldest returned entry.
RemainingForFirst == budget - TotalChars(Tail(result))

\* C24: at most one returned entry is truncated, it is the oldest (first)
\* one, and its body is the first `remaining` characters of the original
\* body followed by one ellipsis; every newer entry has its body verbatim.
C24 ==
    returned =>
        /\ \A i \in 1..Len(result) : result[i].id \in {m.id : m \in Range(Prior)}
        /\ \A i \in 2..Len(result) : ~Truncated(i)
        /\ result # <<>> /\ Truncated(1) =>
              /\ RemainingForFirst > 0
              /\ RemainingForFirst < Len(Orig(1).msg)
              /\ result[1].body =
                    Append(SubSeq(Orig(1).msg, 1, RemainingForFirst), Ellipsis)

\* A long body before a short one, and a budget between the two: two
\* entries, the first cut.
C24_Witness ==
    /\ returned
    /\ Len(result) = 2
    /\ Truncated(1)
    /\ Len(Orig(1).msg) = MaxBody
    /\ result[2].body = Orig(2).msg
    /\ Len(result[2].body) > 0

\* C25: the result has no entry for the current message; its entries are for
\* a contiguous run of the newest prior messages, in the order of the input.
C25 ==
    returned =>
        /\ Len(result) <= Len(Prior)
        /\ \A i \in 1..Len(result) :
              /\ result[i].id # currentMsgId
              /\ result[i].id = Prior[Len(Prior) - Len(result) + i].id

\* The current message is in the middle of the history, an older message
\* is left out.
C25_Witness ==
    /\ returned
    /\ Len(threadHistory) = MaxHist
    /\ currentMsgId = 2
    /\ Len(result) = 1
    /\ result[1].id = MaxHist

\* C26 as stated: the bodies of the returned entries have at most `budget`
\* characters in total.
C26_Orig == returned => TotalChars(result) <= budget

\* The characters of a body without the ellipsis of a truncation.
TakenChars(i) ==
    IF Truncated(i) THEN Len(result[i].body) - 1 ELSE Len(result[i].body)

RECURSIVE TotalTaken(_)
TotalTaken(i) == IF i = 0 THEN 0 ELSE TakenChars(i) + TotalTaken(i - 1)

\* C26: the characters taken from the messages are at most `budget` in
\* total; the bodies of the returned entries have at most budget + 1
\* characters, and budget + 1 exactly when an entry is truncated (the
\* ellipsis comes on top of the budget); a budget of 0 gives no entry.
C26 ==
    returned =>
        /\ TotalTaken(Len(result)) <= budget
        /\ TotalChars(result) <= budget + 1
        /\ (result # <<>> /\ Truncated(1)) <=> TotalChars(result) = budget + 1
        /\ budget = 0 => result = <<>>

C26_Witness ==
    /\ returned
    /\ budget = 1
    /\ Len(result) = 1
    /\ Len(result[1].body) = 2

\* ----------------------------------------------- C30: thread discovery
\* An iteration of the channel loop on batch[idx].
ChannelIteration ==
    /\ pc = "chan"
    /\ tIdx = 0
    /\ pc' # pc \/ idx' # idx
    /\ pc' # "thr"

IsThreadRoot(m) == m.tmid = NoId /\ m.tcount > 0

FinalMarks == {"white_check_mark:add", "x:add"}

\* A temporary directory was created for the message whose calls trace holds.
DirCreated == Count(trace, "mkdtemp") = 1

\* C28: for every processed message for which a temporary directory was
\* created, exactly one removal of it is started, as the last call and right
\* after the final mark, whatever the outcome (complete, failed, throw); no
\* removal is started before the final mark, and none for a message that
\* created no directory.
C28 ==
    /\ pc \in ProcPcs =>
          /\ Count(trace, "rm") = 0
          /\ cur.tempDir <=> DirCreated
    /\ Processed =>
          IF DirCreated
          THEN /\ Count(trace, "rm") = 1
               /\ trace[Len(trace)] = Ev("rm", Held.id)
               /\ trace[Len(trace) - 1].op \in FinalMarks
          ELSE /\ Count(trace, "rm") = 0
               /\ trace[Len(trace)].op \in FinalMarks

\* A message whose directory was created and whose dispatch threw has been
\* marked failed and the removal started.
C28_Witness ==
    /\ Processed
    /\ DirCreated
    /\ Thrown
    /\ LastOp = "rm"
    /\ trace[Len(trace) - 1].op = "x:add"

\* ------------------------------------------------------------- C29
\* The attachments of the message in processMessage whose download succeeded
\* and failed, read off its calls.
Downloaded == SelectSeq(trace, LAMBDA e : e.op = "download")

DownloadFailed == SelectSeq(trace, LAMBDA e : e.op = "download_failed")

\* The last mark of the message whose calls trace holds.
FinalMark == LET marks == ReactionCalls(trace) IN marks[Len(marks)].op

\* The dispatcher has been invoked for the message in processMessage.
AtDispatcher == pc \in {"dispatch", "complete1", "complete2"}

\* C29: whatever subset of the downloads of a message fails, and also when
\* the temporary directory cannot be made, the message reaches the
\* dispatcher with its text body; the media fields name the downloaded
\* files only: MediaPath when exactly one download succeeded, MediaPaths
\* when more than one, neither when none; a message is marked failed only
\* after every attachment was gone through, and its final mark is the
\* checkmark exactly when the dispatch succeeded.
C29 ==
    /\ pc \in {"fail1", "fail2"} /\ DirCreated =>
          /\ cur.left = 0
          /\ Len(Downloaded) + Len(DownloadFailed) = cur.files
    /\ AtDispatcher =>
          /\ ctx.Body = MsgText(cur.id)
          /\ DirCreated => Len(Downloaded) + Len(DownloadFailed) = cur.files
          /\ cur.paths = [k \in 1..Len(Downloaded) |-> Downloaded[k].arg]
          /\ \A k \in 1..Len(DownloadFailed) :
                \A j \in 1..Len(cur.paths) : cur.paths[j] # DownloadFailed[k].arg
          /\ Len(Downloaded) = 1 =>
                /\ "MediaPath" \in DOMAIN ctx
                /\ ctx.MediaPath = Downloaded[1].arg
                /\ ctx.MediaType = FileType
                /\ {"MediaPaths", "MediaTypes"} \cap DOMAIN ctx = {}
          /\ Len(Downloaded) > 1 =>
                /\ "MediaPaths" \in DOMAIN ctx
                /\ ctx.MediaPaths = cur.paths
                /\ Len(ctx.MediaTypes) = Len(ctx.MediaPaths)
                /\ {"MediaPath", "MediaType"} \cap DOMAIN ctx = {}
          /\ Len(Downloaded) = 0 =>
                {"MediaPath", "MediaType", "MediaPaths", "MediaTypes"}
                    \cap DOMAIN ctx = {}
    /\ Processed =>
          /\ FinalMark = "white_check_mark:add" <=> Succeeded
          /\ FinalMark = "x:add" <=> ~Succeeded

\* A message with two attachments, the first of which failed to download,
\* was dispatched with the second as its MediaPath and marked complete.
C29_Witness ==
    /\ Processed
    /\ Held.files = 2
    /\ Len(DownloadFailed) = 1
    /\ DownloadFailed[1].arg = 1
    /\ Len(Downloaded) = 1
    /\ Succeeded
    /\ FinalMark = "white_check_mark:add"

\* ------------------------------------------------------------- C23
\* The processing of the message in processMessage fails in this step: a
\* throw of the routing or of the dispatch, or a dispatch that returns after
\* the error callback or without a delivery that posted.
FailsNow ==
    \/ Count(trace', "throw") > Count(trace, "throw")
    \/ /\ pc = "dispatch"
       /\ pc' # "dispatch"
       /\ Count(trace, "onError") > 0 \/ Count(trace, "post") = 0

\* The last mark among the calls made up to the end of this step.
FinalMarkNext == LET marks == ReactionCalls(trace') IN marks[Len(marks)].op

\* processMessage returns to its loop, which goes on with the next message.
Continues ==
    /\ pc' = IF tIdx = 0 THEN "chan" ELSE "reply"
    /\ idx' = idx + 1
    /\ batch' = batch
    /\ tIdx' = tIdx
    /\ activeThreads' = activeThreads
    /\ aborted' = aborted

\* C23 as stated: a processed message one of whose deliveries or attachment
\* downloads failed, or whose routing or dispatch threw, is marked failed.
C23_Orig ==
    Processed
    /\ (Thrown \/ Count(trace, "post_failed") > 0
               \/ Count(trace, "download_failed") > 0)
    => FinalMark = "x:add"

\* C23: a message whose routing or dispatch throws, whose dispatch reports
\* an error or returns without a delivery that posted goes to markFailed,
\* is marked failed, and processMessage returns to its loop: the batch, the
\* tracked threads and the signal are as before and the loop is at the next
\* message. Every eligible message the channel loop or a reply loop comes to
\* is taken up, the loops end only when the batch is exhausted, every
\* tracked thread is polled before the cycle ends, and the reaction calls
\* of a message name that message only, starting from none. A failed
\* delivery or a failed attachment download alone does not mark failed.
C23 ==
    [][/\ FailsNow => pc' = "fail1"
       /\ pc = "fail1" => pc' = "fail2"
       /\ pc = "fail2" => FinalMarkNext = "x:add" /\ Continues
       /\ pc \in {"chan", "reply"} /\ idx <= Len(batch) /\ ~aborted
          /\ SkipReason(batch[idx], processedIds) = "none"
             => pc' \in {"ctx", "rm_x", "mark_proc"}
       /\ pc = "ctx" /\ SkipReason(batch[idx], processedIds) = "none"
             => pc' \in {"rm_x", "mark_proc"}
       /\ pc \in {"chan", "reply"} /\ pc' = "thr" /\ ~aborted
             => idx > Len(batch)
       /\ pc = "thr" /\ pc' # "thr" /\ ~aborted =>
             IF tIdx <= Len(activeThreads) THEN BeginsThread
             ELSE pc' = "sleep"
       /\ Entered => ReactionCalls(trace') = <<>>
       /\ pc' \in ProcPcs =>
             \A k \in 1..Len(trace') :
                trace'[k].op \in ReactionNames => trace'[k].arg = cur'.id
      ]_vars

\* The first message of a channel batch, one with files, was marked failed;
\* the second was then processed and marked complete.
C23_Witness ==
    /\ pc = "chan"
    /\ tIdx = 0
    /\ idx = 3
    /\ batch[1].files > 0
    /\ rx[batch[1].id] = {"x"}
    /\ rx[batch[2].id] = {"white_check_mark"}
    /\ Processed
    /\ Succeeded

\* ------------------------------------------------------------- C27
\* The inbound context of the message in processMessage has been built.
ContextBuilt == pc \in {"dispatch", "complete1", "complete2"}

\* The root of the thread the message in processMessage belongs to.
ThreadRoot ==
    IF msgs[cur.id].tmid # NoId THEN msgs[cur.id].tmid ELSE cur.id

ThreadFields == {"InboundHistory", "ThreadStarterBody", "MessageThreadId"}

\* C27: for every dispatched message with a fetched thread context the
\* inbound context carries an InboundHistory without the message itself, the
\* body of the root of its thread as ThreadStarterBody, whatever the length
\* of the thread, and the id of the root as MessageThreadId; a reply whose
\* context was not fetched is dispatched without the three fields.
C27_Orig ==
    ContextBuilt =>
       IF Len(cur.threadHistory) > 0
       THEN /\ ThreadFields \subseteq DOMAIN ctx
            /\ \A k \in 1..Len(ctx.InboundHistory) :
                  ctx.InboundHistory[k].id # cur.id
            /\ ctx.ThreadStarterBody = MsgText(ThreadRoot)
            /\ ctx.MessageThreadId = ThreadRoot
       ELSE ThreadFields \cap DOMAIN ctx = {}

\* A reply found by the poll of its thread is dispatched with a thread
\* history that does not start at the root of the thread.
C27_Witness ==
    /\ pc = "dispatch"
    /\ tIdx > 0
    /\ Len(cur.threadHistory) = THREAD_CONTEXT_COUNT
    /\ cur.threadHistory[1].id # ThreadRoot
    /\ ctx.ThreadStarterBody # MsgText(ThreadRoot)
    /\ ctx.MessageThreadId = ThreadRoot

\* ------------------------------------------------- C31: thread expiry
\* The prune step of a cycle: the channel loop has ended.
PruneStep == pc = "chan" /\ pc' = "thr"

\* The ids of the tracked threads, in the order of the tracker.
TrackedIds(threads) == [k \in 1..Len(threads) |-> threads[k].id]

\* The thread state st is older than the TTL at the clock.
Stale(st, clock) == clock - st.lastSeen > threadTtlMs

\* The root of the tracked thread st is in the channel window of the cycle,
\* with a reply count above 0.
RootInWindow(st) ==
    \E i \in 1..Len(batch) : batch[i].id = st.id /\ IsThreadRoot(batch[i])

\* The prune step removes exactly the thread states older than the TTL and
\* leaves the others as they are; no other step removes a thread state.
PrunesStale ==
    /\ PruneStep =>
          /\ activeThreads' = SelectSeq(activeThreads,
                                        LAMBDA st : ~Stale(st, now))
          /\ \A k \in 1..Len(activeThreads') : ~Stale(activeThreads'[k], now')
    /\ ~PruneStep /\ pc' # "start" =>
          \/ TrackedIds(activeThreads') = TrackedIds(activeThreads)
          \/ /\ ChannelIteration
             /\ TrackedIds(activeThreads') =
                    Append(TrackedIds(activeThreads), batch[idx].id)

\* C31 as stated: the prune step removes a thread state if and only if it
\* is older than the TTL, and a thread whose root is in the channel window
\* of the cycle is never removed.
C31_Orig ==
    [][/\ PrunesStale
       /\ PruneStep =>
             \A k \in 1..Len(activeThreads) :
                RootInWindow(activeThreads[k])
                   => ThreadPos(activeThreads', activeThreads[k].id) # 0]_vars

\* C31: at the prune step of a cycle a thread state is removed if and only
\* if now - lastSeen is strictly greater than the TTL, the states that stay
\* are unchanged, and nothing else removes a thread state, so every thread
\* polled in the cycle was within the TTL at the prune step. A thread whose
\* root is in the channel window of the cycle is removed only when more than
\* the TTL has passed between the refresh of its lastSeen in the channel
\* loop and the prune step of the same cycle; one refreshed at the clock of
\* the prune step stays.
C31 ==
    [][/\ PrunesStale
       /\ PruneStep =>
             \A k \in 1..Len(activeThreads) :
                LET st == activeThreads[k]
                IN  /\ RootInWindow(st) /\ ThreadPos(activeThreads', st.id) = 0
                          => now - st.lastSeen > threadTtlMs
                    /\ st.lastSeen = now
                          => ThreadPos(activeThreads', st.id) # 0]_vars

\* The only thread, whose root and reply are the whole channel window, was
\* refreshed in the channel loop of the cycle and removed at its prune step.
C31_Witness ==
    /\ pc = "thr"
    /\ tIdx = 1
    /\ Len(msgs) = 2
    /\ msgs[2].tmid = 1
    /\ has(processedIds, 2)
    /\ activeThreads = <<>>
    /\ now = MaxNow

\* ------------------------------------------ C32: the pagination cursor
\* The page of replies that a fetch for the thread state st returns.
ReplyPage(st) == getThreadMessages(st.id, THREAD_POLL_COUNT, st.offset)

\* The poll of the tracked thread at tIdx ends in this step.
PollEnds == pc \in {"thr", "tctx", "reply"} /\ pc' = "thr" /\ tIdx' = tIdx + 1

\* Every thread state but the one at position k is as it was.
OthersKept(k) ==
    /\ Len(activeThreads') = Len(activeThreads)
    /\ \A j \in 1..Len(activeThreads) :
          j # k => activeThreads'[j] = activeThreads[j]

\* The poll that ends in this step moved the cursor of its thread past the
\* page it fetched, and refreshed its lastSeen.
Advanced ==
    /\ OthersKept(tIdx)
    /\ activeThreads'[tIdx].id = activeThreads[tIdx].id
    /\ activeThreads'[tIdx].offset = activeThreads[tIdx].offset + Len(batch)
    /\ activeThreads'[tIdx].lastSeen = now

\* C32 as stated: the poll of a thread that returned n > 0 replies ends with
\* the offset grown by n and lastSeen refreshed.
C32_Orig ==
    [][PollEnds /\ pc \in {"tctx", "reply"} => Advanced]_vars

\* C32: every reply fetch of a tracked thread asks for the page at the
\* current offset of that thread. A poll whose reply fetch returned n > 0
\* replies and whose context fetch succeeded ends with the offset grown by
\* exactly n, replies that the filter excluded included, and lastSeen set to
\* the clock; a poll that returned nothing, or one of whose fetches failed,
\* leaves the thread state as it was. No other step changes an offset, so
\* the offset of a tracked thread never decreases, never passes the length
\* of the thread, and the pages fetched one after the other are contiguous.
C32 ==
    [][/\ pc = "thr" /\ pc' = "tctx" =>
             /\ batch' = ReplyPage(activeThreads[tIdx])
             /\ Len(batch') > 0
             /\ batch'[1].id = ThreadIds(activeThreads[tIdx].id)
                                  [activeThreads[tIdx].offset + 1]
             /\ activeThreads' = activeThreads
       /\ PollEnds /\ pc = "reply" =>
             /\ Len(batch) > 0
             /\ Advanced
       /\ PollEnds /\ pc \in {"thr", "tctx"} => activeThreads' = activeThreads
       /\ pc = "thr" /\ pc' = "thr" /\ tIdx' = tIdx + 1
          /\ Len(ReplyPage(activeThreads[tIdx])) > 0
             => ThreadFetch(FALSE)
       /\ ~PollEnds =>
             \A k \in 1..Len(activeThreads) :
                LET j == ThreadPos(activeThreads', activeThreads[k].id)
                IN  j # 0 =>
                       activeThreads'[j].offset = activeThreads[k].offset
       /\ \A k \in 1..Len(activeThreads) :
             LET j == ThreadPos(activeThreads', activeThreads[k].id)
             IN  j # 0 =>
                    /\ activeThreads'[j].offset >= activeThreads[k].offset
                    /\ activeThreads'[j].offset
                          <= Len(ThreadIds(activeThreads[k].id))
      ]_vars

\* A thread of three messages was read in two polls, of two messages and of
\* one: its cursor is at the end of the thread.
C32_Witness ==
    /\ pc = "thr"
    /\ \E k \in 1..Len(activeThreads) :
          /\ activeThreads[k].offset = 3
          /\ Len(ThreadIds(activeThreads[k].id)) = 3

\* ------------------------------------------ C33: discovery asymmetry
\* The channel loop is at a reply: a message with a parent.
AtChannelReply ==
    /\ tIdx = 0
    /\ pc \in {"chan", "ctx"}
    /\ idx <= Len(batch)
    /\ batch[idx].tmid # NoId

\* C33: a reply met in the channel window is handed to processMessage with
\* its parent as the reply target, and every post of its dispatch goes to
\* the parent; meeting it creates and refreshes no thread state. A thread
\* state is created, and its lastSeen refreshed outside the poll of the
\* thread itself, only in the channel iteration on the root of the thread,
\* met with a reply count above 0; so only threads discovered by their root
\* are polled.
C33 ==
    [][/\ AtChannelReply =>
             /\ activeThreads' = activeThreads
             /\ pc' \in {"ctx", "rm_x", "mark_proc", "chan"}
             /\ pc' \in {"rm_x", "mark_proc"} =>
                   /\ cur'.id = batch[idx].id
                   /\ cur'.thread = batch[idx].tmid
       /\ \A k \in 1..Len(trace') :
             pc \in ProcPcs /\ trace'[k].op = "post" /\ tIdx = 0
             /\ msgs[cur.id].tmid # NoId
                => trace'[k].arg = msgs[cur.id].tmid
       /\ \A j \in 1..Len(activeThreads') :
             LET st == activeThreads'[j]
                 k == ThreadPos(activeThreads, st.id)
             IN  (k = 0 \/ (activeThreads[k] # st /\ ~PollEnds)) =>
                    /\ ChannelIteration
                    /\ batch[idx].id = st.id
                    /\ IsThreadRoot(batch[idx])
       /\ pc = "thr" /\ pc' = "tctx" =>
             msgs[activeThreads[tIdx].id].tmid = NoId]_vars

\* A reply whose root is outside the channel window was dispatched from the
\* channel loop and answered in the thread of its root, which is not
\* tracked.
C33_Witness ==
    /\ pc = "chan"
    /\ tIdx = 0
    /\ Processed
    /\ Held.tmid # NoId
    /\ \A i \in 1..Len(batch) : batch[i].id # Held.tmid
    /\ ThreadPos(activeThreads, Held.tmid) = 0
    /\ \E k \in 1..Len(trace) : trace[k] = Ev("post", Held.tmid)

\* ------------------------------------------ C34: sequential processing
\* The messages that carry the hourglass on the chat service: marked
\* processing and not yet given their final mark.
InFlight == {i \in 1..Len(msgs) : "hourglass" \in rx[i]}

\* The messages of a list are in the order they were posted.
Chronological(list) ==
    \A i, j \in 1..Len(list) : i < j => list[i].id < list[j].id

\* C34: at most one message is between its markProcessing and its final
\* mark, and it is the message processMessage is at; the channel window is
\* gone through oldest first, the reverse of the fetched order, one message
\* after the other, and so is a page of thread replies, in the order
\* returned; the thread loop starts only when the channel loop has ended,
\* and the processed ids and the thread offsets change only in steps of the
\* one message or poll the engine is at.
C34 ==
    [][/\ Cardinality(InFlight) <= 1
       /\ InFlight # {} => pc \in ProcPcs /\ InFlight = {cur.id}
       /\ pc \in ProcPcs => cur.id = batch[idx].id
       /\ pc = "loop" /\ pc' = "chan" =>
             /\ batch' = Reverse(getChannelHistory(HISTORY_COUNT))
             /\ Chronological(batch')
             /\ idx' = 1
       /\ pc = "thr" /\ pc' = "tctx" => Chronological(batch') /\ idx' = 1
       /\ pc \in {"chan", "ctx", "reply"} \cup ProcPcs
          /\ pc' \in {"chan", "ctx", "reply"} \cup ProcPcs =>
             /\ idx' \in {idx, idx + 1}
             /\ idx' = idx + 1 <=> pc' \in {"chan", "reply"}
             /\ Len(batch') = Len(batch)
             /\ \A i \in 1..Len(batch) : batch'[i].id = batch[i].id
             /\ tIdx' = tIdx
       /\ tIdx = 0 /\ tIdx' # 0 => pc = "chan" /\ idx > Len(batch)
       /\ processedIds' # processedIds =>
             /\ Entered
             /\ processedIds' = AddProcessed(processedIds, batch[idx].id)
       /\ pc \in ProcPcs => activeThreads' = activeThreads
      ]_vars

\* The second message of the channel window is with the agent, the first
\* has its final mark, and no other message carries the hourglass.
C34_Witness ==
    /\ pc = "dispatch"
    /\ tIdx = 0
    /\ idx = 2
    /\ InFlight = {batch[2].id}
    /\ rx[batch[1].id] \in {{"white_check_mark"}, {"x"}}
    /\ batch[1].id < batch[2].id

\* ------------------------------------- C35: closure of the state machine
\* markProcessing was invoked for the message processMessage is at, and its
\* final mark is still to come.
MarkedProcessing == pc \in ProcPcs \ {"rm_x", "mark_proc"}

\* The invocations of markComplete and of markFailed among the calls of the
\* message: each ends with its own emoji.
MarkCompleteCalls == Count(trace, "white_check_mark:add")

MarkFailedCalls == Count(trace, "x:add")

\* processMessage has returned from message m with exactly one of the two
\* markers invoked.
Closed(m) ==
    /\ Processed
    /\ Held.id = m
    /\ MarkCompleteCalls + MarkFailedCalls = 1
    /\ Count(trace, "hourglass:remove") = 1

\* C35: a message for which markProcessing was invoked gets markComplete or
\* markFailed invoked, exactly one of them and once, when the dispatch call
\* returns or throws, also when the signal is set while the message is in
\* flight; until then neither was invoked.
C35 ==
    /\ [](/\ MarkedProcessing =>
               /\ Count(trace, "hourglass:add") = 1
               /\ MarkCompleteCalls + MarkFailedCalls = 0
               /\ pc \in {"complete1", "complete2"} => Count(trace, "throw") = 0
          /\ Processed =>
               /\ MarkCompleteCalls + MarkFailedCalls = 1
               /\ Count(trace, "hourglass:remove") = 1)
    /\ \A m \in 1..MaxMsg :
          (MarkedProcessing /\ cur.id = m) ~> Closed(m)

\* The signal is set, messages of the batch remain, and the message that
\* was in processMessage has its final mark.
C35_Witness ==
    /\ aborted
    /\ pc = "chan"
    /\ idx <= Len(batch)
    /\ Closed(batch[idx - 1].id)
    /\ Unmarked(batch[idx])
    /\ ~has(processedIds, batch[idx].id)

\* ------------------------------------------------- C36: filter frame
\* The filter excludes batch[idx] in this step.
Excludes == FilterStep /\ SkipReason(batch[idx], processedIds) # "none"

ContextFails == pc = "tctx" /\ pc' = "thr"

\* The replies of the tracked thread at tIdx are read in this step.
RepliesRead == pc = "thr" /\ pc' = "tctx"

\* The ids of the messages of a batch, in its order.
BatchIds(b) == [k \in 1..Len(b) |-> b[k].id]

\* The failed poll left nothing behind: no reply of it entered
\* processMessage, the ProcessedSet, every reaction and every thread state
\* are as they were.
FailureFrame ==
    ContextFails =>
        /\ Len(batch) > 0
        /\ pc' \notin ProcPcs
        /\ cur' = cur
        /\ trace' = trace
        /\ processedIds' = processedIds
        /\ rx' = rx
        /\ activeThreads' = activeThreads

\* A poll that failed at the context fetch is pending for a thread that is
\* tracked at the offset the poll read from.
PendingKept ==
    \A p \in pending :
        /\ ThreadPos(activeThreads, p.id) # 0
        /\ activeThreads[ThreadPos(activeThreads, p.id)].offset = p.offset

\* The next read of the replies of a thread with a pending poll returns the
\* replies of that poll again, first and in the same order.
ReadAgain ==
    RepliesRead =>
        \A p \in pending :
            p.id = activeThreads[tIdx].id =>
                /\ activeThreads[tIdx].offset = p.offset
                /\ IsPrefix(p.page, BatchIds(batch'))

\* C37 as the spec words it: a thread poll that read n > 0 replies and
\* failed at the context fetch dispatches none of them, leaves the
\* ProcessedSet, the offset and lastSeenAt as they were, and its thread is
\* still tracked in the next cycle, where the same replies are read again
\* at the same offset.
C37_Orig ==
    [][/\ FailureFrame
       /\ ReadAgain
       /\ \A p \in pending : ThreadPos(activeThreads', p.id) # 0]_vars

\* C37: a thread poll that read n > 0 replies and failed at the context
\* fetch dispatches none of them and leaves the ProcessedSet, the reactions
\* and every thread state as they were; as long as the thread is tracked its
\* offset stays, and the next read of its replies returns the same replies
\* at the same offset; the thread is dropped before that read only by the
\* prune step, when its lastSeenAt, which the failed poll did not refresh,
\* is older than the TTL.
C37 ==
    [][/\ FailureFrame
       /\ PendingKept
       /\ ReadAgain
       /\ \A p \in pending :
             ThreadPos(activeThreads', p.id) = 0 =>
                 /\ PruneStep
                 /\ Stale(activeThreads[ThreadPos(activeThreads, p.id)],
                          now)]_vars

\* The replies of a poll that failed at the context fetch have been read
\* again, at the same offset, and are about to be processed.
C37_Witness ==
    /\ pc = "tctx"
    /\ \E p \in pending :
          /\ p.id = activeThreads[tIdx].id
          /\ p.offset = activeThreads[tIdx].offset
          /\ p.page = BatchIds(batch)

\* ------------------------------------------------------------------ C38
\* The thread was deleted as stale earlier in this run.
WasPruned(id) == \E p \in pruned : p.id = id

\* The channel loop meets, as a root with replies, a thread that was pruned
\* and is not tracked.
Rediscovers(id) ==
    /\ ChannelIteration
    /\ WasPruned(id)
    /\ ThreadPos(activeThreads, id) = 0
    /\ batch[idx].id = id
    /\ IsThreadRoot(batch[idx])

\* The first THREAD_POLL_COUNT ids of the thread, the root first.
FirstPage(id) ==
    SubSeq(ThreadIds(id), 1, Min(THREAD_POLL_COUNT, Len(ThreadIds(id))))

\* One iteration of the reply loop of a thread that was pruned before.
RepolledReply ==
    /\ pc = "reply"
    /\ tIdx \in 1..Len(activeThreads)
    /\ WasPruned(activeThreads[tIdx].id)
    /\ idx <= Len(batch)
    /\ pc' # pc \/ idx' # idx

\* C38: a thread that was pruned gets a thread state again exactly when the
\* channel loop meets its root with a reply count above 0, and that state
\* has offset 0; the reply fetch at offset 0 returns the thread from its
\* start; of the messages so fetched the reply loop passes to the dispatcher
\* exactly those that carry no checkmark, whose id is not in the ProcessedSet
\* and that are user messages.
C38 ==
    [][/\ \A id \in Ids :
             /\ Rediscovers(id) =>
                   activeThreads' =
                       Append(activeThreads,
                              [id |-> id, lastSeen |-> now, offset |-> 0])
             /\ WasPruned(id) /\ ThreadPos(activeThreads, id) = 0
                    /\ ThreadPos(activeThreads', id) # 0
                   => Rediscovers(id)
       /\ RepliesRead /\ WasPruned(activeThreads[tIdx].id)
              /\ activeThreads[tIdx].offset = 0
             => BatchIds(batch') = FirstPage(activeThreads[tIdx].id)
       /\ RepolledReply =>
             LET m == batch[idx]
             IN  pc' \in {"rm_x", "mark_proc"}
                    <=> /\ ~m.check
                        /\ ~has(processedIds, m.id)
                        /\ m.sender # botUserId /\ ~m.t /\ ~m.bot]_vars

\* A thread that had been polled past its start and was pruned is tracked
\* again and polled from offset 0, and a reply of it that had failed before
\* and has left the ProcessedSet is being processed again.
C38_Witness ==
    /\ pc = "rm_x"
    /\ tIdx \in 1..Len(activeThreads)
    /\ activeThreads[tIdx].offset = 0
    /\ \E p \in pruned : p.id = activeThreads[tIdx].id /\ p.offset > 0
    /\ msgs[cur.id].tmid = activeThreads[tIdx].id
    /\ cur.x

\* ------------------------------------------------------------------ C39
\* The channel fetch of the cycle fails in this step.
FetchFails == pc = "loop" /\ pc' = "sleep"

\* The step dispatches nothing and leaves the ProcessedSet, the reactions
\* of every message and every thread state as they were.
CycleFrame ==
    /\ pc' \notin ProcPcs
    /\ cur' = NoMsg
    /\ trace' = <<>>
    /\ processedIds' = processedIds
    /\ \A i \in 1..Len(rx) : rx'[i] = rx[i]
    /\ activeThreads' = activeThreads

\* C39: every cycle starts with the channel fetch, which leads either into
\* the channel loop or, when it fails, to the sleep; the failing fetch and
\* every step of the engine after it, up to the next channel fetch,
\* dispatches no message, creates, refreshes, prunes and polls no thread
\* state and leaves the ProcessedSet as it was; after the failure the engine
\* sleeps and then fetches the channel again.
C39 ==
    [][/\ pc = "loop" => pc' \in {"loop", "chan", "sleep"}
       /\ FetchFails => CycleFrame
       /\ fetchFailed =>
             /\ pc \in {"sleep", "loop"}
             /\ pc = "sleep" => pc' \in {"sleep", "loop"}
             /\ CycleFrame]_vars

\* The channel fetch has failed and the engine has slept and is about to
\* fetch again, while a tracked thread is older than the TTL and has replies
\* waiting at its offset, and the newest message is not in the ProcessedSet.
C39_Witness ==
    /\ pc = "loop"
    /\ fetchFailed
    /\ Len(msgs) > 0
    /\ ~has(processedIds, Len(msgs))
    /\ \E k \in 1..Len(activeThreads) :
          /\ Stale(activeThreads[k], now)
          /\ Len(ReplyPage(activeThreads[k])) > 0

\* ------------------------------------------------------------------ C40
\* What getRuntime does, by the setRuntime calls made so far.
RuntimeByCalls ==
    getRuntime = IF setLog.last = NoRuntime THEN RuntimeError
                 ELSE Returns(setLog.last)

\* The dispatch of the message whose calls trace holds was left at
\* getRuntime: it threw before it held a handle.
LeftAtRuntime == Count(trace, "throw") = 1 /\ ~HasRuntime

\* The try block asks for the handle while none is stored: the catch is
\* entered at once.
RaisesInTry ==
    pc = "dispatch" /\ ~HasRuntime /\ _runtime = NoRuntime
        /\ (pc' # pc \/ trace' # trace)
        => /\ pc' = "fail1"
           /\ trace' = Append(trace, Ev("throw", cur.id))

\* A message whose dispatch was left at getRuntime was marked processing, is
\* marked failed, was not handed to the dispatcher, stays in the
\* ProcessedSet, and the loop goes on.
FailedUnregistered ==
    LeftAtRuntime =>
        /\ pc \in {"fail1", "fail2", "chan"}
        /\ Count(trace, "hourglass:add") = 1
        /\ Count(trace, "post") = 0
        /\ ~delivered
        /\ has(processedIds, Held.id)
        /\ pc = "chan" =>
              /\ LastOp = "x:add"
              /\ rx[Held.id] = {"x"}

\* C40 as the spec words it: getRuntime raises until setRuntime was called
\* with a non-null handle and from then on returns the argument of the
\* latest setRuntime call; a message processed while no handle is stored is
\* marked processing and then failed, is never dispatched, does not end the
\* loop, and its id stays in the ProcessedSet.
C40_Orig ==
    /\ [](/\ ~setLog.nonNull => getRuntime = RuntimeError
          /\ setLog.nonNull => getRuntime = Returns(setLog.last)
          /\ FailedUnregistered
          /\ pc \notin {"fatal", "stopped"})
    /\ [][RaisesInTry]_vars

\* C40: getRuntime raises while no setRuntime call was made and whenever the
\* latest call passed null, and otherwise returns the argument of the latest
\* call; a message processed while no handle is stored is marked processing
\* and then failed, is never dispatched, does not end the loop, and its id
\* is in the ProcessedSet when processMessage returns.
C40 ==
    /\ [](/\ RuntimeByCalls
          /\ FailedUnregistered
          /\ pc \notin {"fatal", "stopped"})
    /\ [][RaisesInTry]_vars

\* A message was processed before the first setRuntime call with a handle
\* and was marked failed; the plugin has registered since, with the second
\* handle after the first, and the loop is at the next message.
C40_Witness ==
    /\ LeftAtRuntime
    /\ pc = "chan"
    /\ idx <= Len(batch)
    /\ rx[Held.id] = {"x"}
    /\ getRuntime = Returns(MaxRuntime)
    /\ setLog.last = MaxRuntime

====
